---- MODULE Spec2Model ----
(***************************************************************************)
(* Model of the conversational command/prompt engine of telegram-bot-ts.   *)
(*                                                                         *)
(* Part I   - JavaScript string helpers and the zod field validators used  *)
(*            by the command registry of the order bot.                    *)
(* Part II  - the Bot class (bot.ts): one zustand store, the exec          *)
(*            subscribers, the message handler and its continuations.      *)
(* Part III - the CommandHandler class (commandHandler.ts) with the        *)
(*            PromptHandler that tracks activePrompts (prompt.ts).         *)
(* Part IV  - the Command class (command.ts) with the PromptHandler that    *)
(*            catches parse errors and the one that validates (prompt.ts). *)
(* Part V   - the properties of the Bot.                                   *)
(* Part VI  - the properties of the CommandHandler.                        *)
(* Part VII - the properties of Command and PromptHandler.                 *)
(***************************************************************************)
EXTENDS Integers, Sequences, FiniteSets, TLC

(***************************************************************************)
(* Bounds of the model.                                                    *)
(***************************************************************************)
\* Invocations of Bot.exec in one behaviour (the first is the one of main).
MaxExecs == 3
\* Continuations of message handlers that may be suspended at the same time.
MaxTasks == 2
\* Invocations that CommandHandler.executeCommand accepts in one behaviour.
MaxRuns == 3
\* Ticks of the clock of the CommandHandler model; one tick is half a cooldown period.
MaxTime == 2
\* Invocations of Command.execute in one behaviour.
MaxExecutions == 2
\* Selections a checkbox prompt accumulates in one behaviour.
MaxPicks == 1

(***************************************************************************)
(* Part I.  Strings are sequences of one-character strings.                *)
(***************************************************************************)
UpperChars == <<"A","B","C","D","E","F","G","H","I","J","K","L","M",
                "N","O","P","Q","R","S","T","U","V","W","X","Y","Z">>
LowerChars == <<"a","b","c","d","e","f","g","h","i","j","k","l","m",
                "n","o","p","q","r","s","t","u","v","w","x","y","z">>
DigitChars == <<"0","1","2","3","4","5","6","7","8","9">>
WhiteSpace == {" ", "\t", "\n"}

IndexIn(c, seq) == IF \E i \in 1..Len(seq) : seq[i] = c
                   THEN CHOOSE i \in 1..Len(seq) : seq[i] = c
                   ELSE 0

IsDigit(c) == IndexIn(c, DigitChars) # 0
DigitValue(c) == IndexIn(c, DigitChars) - 1
IsLetter(c) == IndexIn(c, UpperChars) # 0 \/ IndexIn(c, LowerChars) # 0

LowerChar(c) == IF IndexIn(c, UpperChars) # 0 THEN LowerChars[IndexIn(c, UpperChars)] ELSE c

\* String.prototype.toLowerCase
ToLowerCase(s) == [i \in 1..Len(s) |-> LowerChar(s[i])]

RECURSIVE TrimStart(_)
TrimStart(s) == IF s # <<>> /\ Head(s) \in WhiteSpace THEN TrimStart(Tail(s)) ELSE s

RECURSIVE TrimEnd(_)
TrimEnd(s) == IF s # <<>> /\ s[Len(s)] \in WhiteSpace THEN TrimEnd(SubSeq(s, 1, Len(s) - 1)) ELSE s

\* String.prototype.trim
Trim(s) == TrimEnd(TrimStart(s))

\* title.replace(/\s+/g, "_"): every maximal run of white space becomes one underscore
RECURSIVE ReplaceSpaces(_)
ReplaceSpaces(s) ==
    IF s = <<>> THEN <<>>
    ELSE IF Head(s) \in WhiteSpace THEN <<"_">> \o ReplaceSpaces(TrimStart(s))
    ELSE <<Head(s)>> \o ReplaceSpaces(Tail(s))

\* The digits at the start of s, as a number, and how many there are.
RECURSIVE LeadingDigits(_, _, _)
LeadingDigits(s, acc, count) ==
    IF s # <<>> /\ IsDigit(Head(s))
    THEN LeadingDigits(Tail(s), 10 * acc + DigitValue(Head(s)), count + 1)
    ELSE [value |-> acc, count |-> count]

\* parseInt(input, 10): leading white space is skipped, a sign is allowed, the
\* digits are read up to the first other character; no digit gives NaN.
ParseInt(s) ==
    LET t == TrimStart(s)
        signed == t # <<>> /\ Head(t) \in {"-", "+"}
        negative == t # <<>> /\ Head(t) = "-"
        body == IF signed THEN Tail(t) ELSE t
        d == LeadingDigits(body, 0, 0)
    IN  IF d.count = 0 THEN [nan |-> TRUE, n |-> 0]
        ELSE [nan |-> FALSE, n |-> IF negative THEN 0 - d.value ELSE d.value]

\* The texts of the messages the model receives ("" is a message without
\* text), and the characters of each.
Texts == { "/help", " /STOP ", "order_item", "customer_info", "Bob", "a@b.io", "1", "-1", "" }

Chars(t) ==
    CASE t = "/help" -> <<"/","h","e","l","p">>
      [] t = " /STOP " -> <<" ","/","S","T","O","P"," ">>
      [] t = "order_item" -> <<"o","r","d","e","r","_","i","t","e","m">>
      [] t = "customer_info" -> <<"c","u","s","t","o","m","e","r","_","i","n","f","o">>
      [] t = "Bob" -> <<"B","o","b">>
      [] t = "a@b.io" -> <<"a","@","b",".","i","o">>
      [] t = "1" -> <<"1">>
      [] t = "2" -> <<"2">>
      [] t = "-1" -> <<"-","1">>
      [] t = "" -> <<>>
      [] t = "/order" -> <<"/","o","r","d","e","r">>
      [] t = "/admin" -> <<"/","a","d","m","i","n">>
      [] t = "help" -> <<"h","e","l","p">>
      [] t = "order" -> <<"o","r","d","e","r">>
      [] t = "admin" -> <<"a","d","m","i","n">>
      [] t = "/pick" -> <<"/","p","i","c","k">>
      [] t = "pick" -> <<"p","i","c","k">>
      [] t = "Tea" -> <<"T","e","a">>
      [] t = "Done" -> <<"D","o","n","e">>
      [] t = "done" -> <<"d","o","n","e">>
      [] t = "Yes" -> <<"Y","e","s">>
      [] t = "yes" -> <<"y","e","s">>
      [] t = "no" -> <<"n","o">>
      [] t = "ping" -> <<"p","i","n","g">>
      [] t = "General" -> <<"G","e","n","e","r","a","l">>
      [] t = "orders" -> <<"o","r","d","e","r","s">>
      [] t = "/orders" -> <<"/","o","r","d","e","r","s">>
      [] t = "2024" -> <<"2","0","2","4">>
      [] t = "rate" -> <<"r","a","t","e">>

\* The texts sent to a Bot whose registry also holds the commands of a client
\* of the class (LibCommands below).
LibTexts == { "ping", "rate", "1", " /STOP " }

\* parseInt(text, 10) of every text, computed once.
ParsedInt == [t \in Texts \cup LibTexts |-> ParseInt(Chars(t))]

(***************************************************************************)
(* Values held in the answer map.  Every value is a record of one shape:   *)
(* kind is the JavaScript type zod sees, s the text of a string (a message *)
(* text, see Chars), n the number.                                         *)
(***************************************************************************)
StringVal(s) == [kind |-> "string", s |-> s, n |-> 0]
NumberVal(n) == [kind |-> "number", s |-> "", n |-> n]
NaNVal == [kind |-> "nan", s |-> "", n |-> 0]
PromiseVal == [kind |-> "promise", s |-> "", n |-> 0]
NullVal == [kind |-> "null", s |-> "", n |-> 0]
DateVal(valid) == [kind |-> IF valid THEN "date" ELSE "invalid_date", s |-> "", n |-> 0]

\* z.string().email(): one "@", a local part, a domain whose last label has
\* at least two letters.
IsEmail(s) ==
    \E at \in 2..(Len(s) - 1) :
        /\ s[at] = "@"
        /\ \A i \in 1..Len(s) : s[i] = "@" => i = at
        /\ \E dot \in (at + 2)..(Len(s) - 2) :
              /\ s[dot] = "."
              /\ \A i \in (dot + 1)..Len(s) : IsLetter(s[i])
        /\ \A i \in 1..Len(s) : s[i] \notin WhiteSpace

\* new Date(input) for the YYYY-MM-DD form the prompt asks for.
IsIsoDate(s) ==
    /\ Len(s) = 10
    /\ \A i \in {1, 2, 3, 4, 6, 7, 9, 10} : IsDigit(s[i])
    /\ s[5] = "-" /\ s[8] = "-"

StatusValues == { <<"P","e","n","d","i","n","g">>,
                  <<"P","r","o","c","e","s","s","i","n","g">>,
                  <<"C","o","m","p","l","e","t","e","d">> }


(***************************************************************************)
(* Part II.  The registry of the order bot: customer_info, order_item and  *)
(* special_order.  A command is named in the model by the name the         *)
(* registry gives it.                                                      *)
(***************************************************************************)
Commands == {"customer_info", "order_item", "special_order"}

\* Two commands a client of the Bot class registers with bot.schema(...)
\* .command(...): ping has a title, an action and no prompt; rate has one
\* prompt and an action that fails.  No text of Texts names them.
LibCommands == {"ping", "rate"}

Title(c) ==
    CASE c = "customer_info" -> <<"C","u","s","t","o","m","e","r"," ","I","n","f","o">>
      [] c = "order_item"    -> <<"O","r","d","e","r"," ","I","t","e","m">>
      [] c = "special_order" -> <<"S","p","e","c","i","a","l"," ","O","r","d","e","r">>
      [] c = "ping"          -> <<"P","i","n","g">>
      [] c = "rate"          -> <<"R","a","t","e">>

\* Bot.schema(...).command: name = title.toLowerCase().replace(/\s+/g, "_")
CommandName(c) == ReplaceSpaces(ToLowerCase(Title(c)))

IsPublic(c) == c # "customer_info"

HasExecute(c) == c \in {"special_order", "ping", "rate"}

\* The promise command.execute(responses) returns is rejected.
ExecuteFails(c) == c = "rate"

\* The prompts of a command, in declared order: the key, whether a help text
\* is declared, and the parser.
Prompts(c) ==
    CASE c = "customer_info" ->
            << [key |-> "name",  help |-> TRUE, parser |-> "identity"],
               [key |-> "email", help |-> TRUE, parser |-> "identity"] >>
      [] c = "order_item" ->
            << [key |-> "productName", help |-> TRUE, parser |-> "identity"],
               [key |-> "quantity",    help |-> TRUE, parser |-> "parseInt"] >>
      [] c = "special_order" ->
            << [key |-> "customerInfo",    help |-> FALSE, parser |-> "execCustomerInfo"],
               [key |-> "items",           help |-> TRUE,  parser |-> "execOrderItems"],
               [key |-> "status",          help |-> TRUE,  parser |-> "identity"],
               [key |-> "fulfillmentDate", help |-> TRUE,  parser |-> "newDate"],
               [key |-> "notes",           help |-> TRUE,  parser |-> "noneToNull"] >>
      [] c = "ping" -> << >>
      [] c = "rate" -> << [key |-> "rating", help |-> FALSE, parser |-> "parseInt"] >>

PromptKeys(c) == { Prompts(c)[i].key : i \in 1..Len(Prompts(c)) }

\* The zod schema of one field of the input schemas of the registry.
FieldAccepts(key, v) ==
    CASE key = "name"            -> v.kind = "string" /\ Len(Chars(v.s)) >= 2
      [] key = "email"           -> v.kind = "string" /\ IsEmail(Chars(v.s))
      [] key = "productName"     -> v.kind = "string" /\ Len(Chars(v.s)) >= 1
      [] key = "quantity"        -> v.kind = "number" /\ v.n > 0
      [] key = "customerInfo"    -> v.kind = "object"
      [] key = "items"           -> v.kind = "array"
      [] key = "status"          -> v.kind = "string" /\ Chars(v.s) \in StatusValues
      [] key = "fulfillmentDate" -> v.kind = "date"
      [] key = "notes"           -> v.kind \in {"string", "null"}
      [] key = "rating"          -> v.kind = "number" /\ v.n > 0
      [] OTHER                   -> FALSE

\* inputSchema.parse(responses) of a command: every field of the schema is
\* present and accepted; keys the schema does not know are stripped.
SchemaAccepts(c, resp) ==
    \A k \in PromptKeys(c) : k \in DOMAIN resp /\ FieldAccepts(k, resp[k])

SchemaOutput(c, resp) == [k \in PromptKeys(c) \cap DOMAIN resp |-> resp[k]]

\* The value a prompt's parser returns for a reply.  The two parsers of
\* special_order are async functions: what they return is a promise.
ParserValue(parser, text) ==
    CASE parser = "identity"         -> StringVal(text)
      [] parser = "parseInt"         -> IF ParsedInt[text].nan THEN NaNVal ELSE NumberVal(ParsedInt[text].n)
      [] parser = "newDate"          -> DateVal(IsIsoDate(Chars(text)))
      [] parser = "noneToNull"       -> IF ToLowerCase(Chars(text)) = <<"n","o","n","e">> THEN NullVal ELSE StringVal(text)
      [] parser = "execCustomerInfo" -> PromiseVal
      [] parser = "execOrderItems"   -> PromiseVal

\* process.env.TELEGRAM_CHAT_ID is the chat of the owner; another chat also
\* writes to the bot.
TELEGRAM_CHAT_ID == "owner"
Chats == {"owner", "guest"}

\* message.text.trim().toLowerCase() of every text, computed once.
Normalized == [t \in Texts \cup LibTexts |-> ToLowerCase(Trim(Chars(t)))]

\* The registry: Map<name, command>, the names computed once.
RegistryName == [c \in Commands \cup LibCommands |-> CommandName(c)]

HelpToken == <<"/","h","e","l","p">>
StopToken == <<"/","s","t","o","p">>

(***************************************************************************)
(* The state of the Bot.                                                   *)
(***************************************************************************)
VARIABLES
    commandStack,        \* BotState.commandStack: frames, the last is the active one
    currentPromptIndex,  \* BotState.currentPromptIndex: 0-based, NoIndex for null
    responses,           \* BotState.responses: key -> value
    isInPromptFlow,      \* BotState.isInPromptFlow
    listeners,           \* the subscribers of the store, in the order of subscribe
    execs,               \* the invocations of Bot.exec and their completion handles
    tasks,               \* suspended continuations of async functions
    shown,               \* history: the prompt at the cursor was sent since the cursor was set
    sent,                \* history: the last message sent
    handled,             \* history: the message whose handler the last step started
    useBotStore,         \* store.ts: the state, name and text of the echo-bot store
    storeCalls,          \* history: the last two calls of the store, each with the store before it
    asks,                \* PromptHandler.ask with bot.once: the invocations and their promises
    onceListeners,       \* the listeners that bot.once attached for "message"
    onceReceived,        \* history: the message the last step delivered to those listeners
    now,                 \* CommandHandler: Date.now()
    lastCommandTimestamp,\* CommandHandler: user id -> {commandName, timestamp}
    activePrompts,       \* PromptHandler.activePrompts: chat id -> the asking invocation
    promptListeners,     \* the "message" listeners of pending prompts, in the order of bot.on
    runs,                \* the accepted invocations of executeCommand, in order
    chSent,              \* history: the messages the last step sent, in order
    received,            \* history: the message (user, chat, text) the last step dispatched
    promptHandler,       \* Command: the PromptHandler class command.ts was built with
    executions,          \* Command: the invocations of Command.execute, in order
    messageListeners,    \* Command: the messageHandler listeners, in the order of bot.on
    phSent,              \* history: the messages the last step sent, in order
    phReceived           \* history: the message (chat, text) the last step dispatched

\* currentPromptIndex: null
NoIndex == -1

NoMap == <<>>

Put(m, k, v) == [x \in DOMAIN m \cup {k} |-> IF x = k THEN v ELSE m[x]]

Remove(seq, x) == SelectSeq(seq, LAMBDA y : y # x)

RemoveAt(seq, i) == SubSeq(seq, 1, i - 1) \o SubSeq(seq, i + 1, Len(seq))

\* No message: the last step resumed a suspended continuation.
NoInput == <<>>

NoMessage == [kind |-> "none", command |-> "none", index |-> NoIndex, retry |-> FALSE]

\* An operator of the model works on a record of the whole state (w); thrown
\* says that an exception is propagating.
World ==
    [stack |-> commandStack, idx |-> currentPromptIndex, resp |-> responses,
     flow |-> isInPromptFlow, subs |-> listeners, execs |-> execs, tasks |-> tasks,
     shown |-> shown, sent |-> sent, handled |-> NoInput, thrown |-> FALSE]

Top(w) == w.stack[Len(w.stack)]

\* client.sendMessage: the message leaves when the call is made.  The history
\* keeps its kind and the prompt that was pending; retry is set when it answers
\* a reply that was accepted right after a rejected reply to the same prompt.
SendMessage(w, chat, kind) ==
    [w EXCEPT !.sent = [kind |-> kind,
                        command |-> IF w.stack = <<>> THEN "none" ELSE Top(w).command,
                        index |-> w.idx,
                        retry |-> FALSE]]

AddTask(w, task) == [w EXCEPT !.tasks = Append(@, task)]

Task(pc, chat, exec, command, n) ==
    [pc |-> pc, chat |-> chat, exec |-> exec, command |-> command, n |-> n]

(***************************************************************************)
(* The store (createBotStore).  Every setState calls the subscribers.      *)
(***************************************************************************)
RECURSIVE Notify(_, _)
RECURSIVE PopCommand(_)

\* zustand setState: the new state is installed, then every listener runs.
SetState(w) == Notify(w, w.subs)

PopCommand(w) ==
    SetState([w EXCEPT !.stack = SubSeq(w.stack, 1, Len(w.stack) - 1),
                       !.idx = IF Len(w.stack) > 1 THEN w.idx ELSE NoIndex,
                       !.resp = IF Len(w.stack) > 1 THEN w.resp ELSE NoMap,
                       !.flow = Len(w.stack) > 1,
                       !.shown = FALSE])

\* Variant: the subscriber leaves with an exception before popCommand.
SubscriberThrowing(w, e) ==
    IF ~(~w.flow /\ w.stack # <<>> /\ Top(w).command = w.execs[e].command) THEN w
    ELSE [w EXCEPT !.subs = Remove(w.subs, e), !.thrown = TRUE]

\* The subscriber Bot.exec installs for invocation e.
Subscriber(w, e) ==
    LET c == w.execs[e].command IN
    IF ~(~w.flow /\ w.stack # <<>> /\ Top(w).command = c) THEN w
    ELSE LET unsubscribed == [w EXCEPT !.subs = Remove(w.subs, e)] IN
         IF ~SchemaAccepts(c, w.resp)
         THEN [unsubscribed EXCEPT !.thrown = TRUE]
         ELSE PopCommand([unsubscribed EXCEPT
                             !.execs[e].state = IF HasExecute(c) /\ ExecuteFails(c)
                                                THEN "rejected" ELSE "resolved",
                             !.execs[e].result = SchemaOutput(c, w.resp),
                             !.execs[e].ran = HasExecute(c)])

\* listeners.forEach: in the order of subscription; a listener removed in the
\* meantime is not called; an exception ends the iteration.
Notify(w, pending) ==
    IF w.thrown \/ pending = <<>> THEN w
    ELSE IF \E i \in 1..Len(w.subs) : w.subs[i] = Head(pending)
         THEN Notify(Subscriber(w, Head(pending)), Tail(pending))
         ELSE Notify(w, Tail(pending))

PushCommand(w, c, e) ==
    SetState([w EXCEPT !.stack = Append(w.stack, [command |-> c, by |-> e, pidx |-> w.idx]),
                       !.idx = 0,
                       !.resp = NoMap,
                       !.flow = TRUE,
                       !.shown = FALSE])

\* Variant: the validated response is not written to the store.
GotResponseDropped(w, key, value) == w

GotResponse(w, key, value) == SetState([w EXCEPT !.resp = Put(w.resp, key, value)])

NextPrompt(w) ==
    IF w.idx = NoIndex \/ w.stack = <<>> THEN w
    ELSE LET nextIndex == w.idx + 1
             more == nextIndex < Len(Prompts(Top(w).command))
         IN  SetState([w EXCEPT !.idx = IF more THEN nextIndex ELSE NoIndex,
                                !.flow = more,
                                !.shown = FALSE])

ResetFlow(w) ==
    SetState([w EXCEPT !.stack = <<>>, !.idx = NoIndex, !.resp = NoMap, !.flow = FALSE,
                       !.shown = FALSE])

(***************************************************************************)
(* The methods of Bot, up to their first await.                            *)
(***************************************************************************)
UserHasPrivateAccess(chat) == TRUE

FinishPromptFlow(w) == ResetFlow(w)

SendNextPrompt(w, chat) ==
    IF w.stack = <<>> \/ w.idx = NoIndex THEN FinishPromptFlow(w)
    ELSE IF w.idx < Len(Prompts(Top(w).command))
         THEN [SendMessage(w, chat, "prompt") EXCEPT !.shown = TRUE]
         ELSE FinishPromptFlow(w)

\* Bot.exec from pushCommand to the await of the title message.
ExecPush(w, e) ==
    LET c == w.execs[e].command
        chat == w.execs[e].chat
    IN  AddTask(SendMessage(PushCommand(w, c, e), chat, "title"),
                Task("execTitle", chat, e, c, 0))

\* A call of Bot.exec for a registered command: a public command is pushed
\* at once, a private one after the await of userHasPrivateAccess.
ExecCall(w, c, chat, origin) ==
    LET e == Len(w.execs) + 1
        started == [w EXCEPT !.execs = Append(w.execs,
                        [command |-> c, chat |-> chat, origin |-> origin,
                         state |-> "pending", result |-> NoMap, ran |-> FALSE])]
    IN  IF ~IsPublic(c)
        THEN AddTask(started, Task("execAccess", chat, e, c, 0))
        ELSE ExecPush(started, e)

\* The side effect of calling a prompt's parser: the parsers of special_order
\* start Bot.exec for TELEGRAM_CHAT_ID and go on when it has resolved.
RunParser(w, parser, text) ==
    CASE parser = "execCustomerInfo" -> ExecCall(w, "customer_info", TELEGRAM_CHAT_ID, "parser")
      [] parser = "execOrderItems" ->
            LET count == ParsedInt[text] IN
            IF ~count.nan /\ count.n > 0
            THEN AddTask(ExecCall(w, "order_item", TELEGRAM_CHAT_ID, "parser"),
                         Task("itemsLoop", TELEGRAM_CHAT_ID, Len(w.execs) + 1, "order_item", count.n - 1))
            ELSE w
      [] OTHER -> w

HandlePromptResponse(w, chat, text) ==
    IF w.stack = <<>> \/ w.idx = NoIndex \/ text = "" THEN w
    ELSE IF w.idx >= Len(Prompts(Top(w).command)) THEN w
    ELSE LET currentCommand == Top(w).command
             currentPrompt == Prompts(currentCommand)[w.idx + 1]
             parsedValue == ParserValue(currentPrompt.parser, text)
             parsed == RunParser(w, currentPrompt.parser, text)
         IN  IF ~FieldAccepts(currentPrompt.key, parsedValue)
             THEN SendMessage(parsed, chat, "invalid")
             ELSE LET advanced == NextPrompt(GotResponse(parsed, currentPrompt.key, parsedValue))
                  IN  IF advanced.thrown
                      THEN SendMessage([advanced EXCEPT !.thrown = FALSE], chat, "invalid")
                      ELSE [SendNextPrompt(advanced, chat) EXCEPT !.sent.retry =
                                /\ w.sent.kind = "invalid"
                                /\ w.sent.command = currentCommand
                                /\ w.sent.index = w.idx]

StopCurrentCommand(w, chat) ==
    IF Len(w.stack) > 0
    THEN AddTask(SendMessage(PopCommand(w), chat, "stopped"),
                 Task("stopSent", chat, 0, "none", Len(w.stack)))
    ELSE SendMessage(w, chat, "nothingToStop")

\* Variant: /help is taken as the reply to the pending prompt.
SendHelpAsReply(w, chat) == HandlePromptResponse(w, chat, "/help")

SendHelpForCurrentPrompt(w, chat) ==
    IF w.stack = <<>> \/ w.idx = NoIndex THEN w
    ELSE IF w.idx < Len(Prompts(Top(w).command)) /\ Prompts(Top(w).command)[w.idx + 1].help
         THEN SendMessage(w, chat, "promptHelp")
         ELSE SendMessage(w, chat, "noPromptHelp")

\* this.commands.has(name) and this.commands.get(name)
Registered(name) == \E c \in Commands \cup LibCommands : RegistryName[c] = name

Lookup(name) == CHOOSE c \in Commands \cup LibCommands : RegistryName[c] = name

\* Variant: an unknown command name is also answered in the chat.
ExecAnswering(w, commandName, chat, origin) ==
    IF ~Registered(commandName)
    THEN SendMessage([w EXCEPT !.execs = Append(@,
                         [command |-> "none", chat |-> chat, origin |-> origin,
                          state |-> "notFound", result |-> NoMap, ran |-> FALSE])],
                     chat, "error")
    ELSE ExecCall(w, Lookup(commandName), chat, origin)

\* Bot.exec(commandName, chatId): a name the registry does not hold makes the
\* call fail with 'Command "..." not found.' before anything else is done.
Exec(w, commandName, chat, origin) ==
    IF ~Registered(commandName)
    THEN [w EXCEPT !.execs = Append(@,
             [command |-> "none", chat |-> chat, origin |-> origin,
              state |-> "notFound", result |-> NoMap, ran |-> FALSE])]
    ELSE ExecCall(w, Lookup(commandName), chat, origin)

HandleMessage(w, chat, messageText) ==
    IF messageText = "" THEN w
    ELSE LET lowered == Normalized[messageText] IN
         IF w.flow
         THEN IF lowered = HelpToken THEN SendHelpForCurrentPrompt(w, chat)
              ELSE IF lowered = StopToken THEN StopCurrentCommand(w, chat)
              ELSE HandlePromptResponse(w, chat, messageText)
         ELSE IF lowered = HelpToken THEN SendMessage(w, chat, "commandList")
         ELSE IF Registered(lowered)
              THEN LET command == Lookup(lowered) IN
                   IF IsPublic(command) THEN ExecCall(w, command, chat, "message")
                   ELSE AddTask(w, Task("hmAccess", chat, 0, command, 0))
              ELSE SendMessage(w, chat, "unrecognized")

(***************************************************************************)
(* The actions of the Bot.                                                 *)
(***************************************************************************)
storeVars == <<useBotStore, storeCalls>>

onceVars == <<asks, onceListeners, onceReceived>>

chVars == <<now, lastCommandTimestamp, activePrompts, promptListeners, runs,
            chSent, received>>

phVars == <<promptHandler, executions, messageListeners, phSent, phReceived>>

botVars == <<commandStack, currentPromptIndex, responses, isInPromptFlow, listeners,
             execs, tasks, shown, sent, handled>>

Install(w) ==
    /\ commandStack' = w.stack
    /\ currentPromptIndex' = w.idx
    /\ responses' = w.resp
    /\ isInPromptFlow' = w.flow
    /\ listeners' = w.subs
    /\ execs' = w.execs
    /\ tasks' = w.tasks
    /\ shown' = w.shown
    /\ sent' = w.sent
    /\ handled' = w.handled
    /\ UNCHANGED <<chVars, phVars, storeVars, onceVars>>

\* Continuations that will run without waiting for a completion handle.
InFlight(ts) == Len(SelectSeq(ts, LAMBDA t : t.pc # "itemsLoop"))

Without(i) == [World EXCEPT !.tasks = RemoveAt(tasks, i)]

\* The state main leaves behind: the store is created, the three commands are
\* registered and bot.exec("special_order", TELEGRAM_CHAT_ID) has run up to
\* the await of its title message.
BotInit ==
    LET fresh == [stack |-> <<>>, idx |-> NoIndex, resp |-> NoMap, flow |-> FALSE,
                  subs |-> <<>>, execs |-> <<>>, tasks |-> <<>>, shown |-> FALSE,
                  sent |-> NoMessage, handled |-> NoInput, thrown |-> FALSE]
        w == ExecCall(fresh, "special_order", TELEGRAM_CHAT_ID, "main")
    IN  /\ commandStack = w.stack
        /\ currentPromptIndex = w.idx
        /\ responses = w.resp
        /\ isInPromptFlow = w.flow
        /\ listeners = w.subs
        /\ execs = w.execs
        /\ tasks = w.tasks
        /\ shown = w.shown
        /\ sent = w.sent
        /\ handled = w.handled

\* The texts the other chat sends.
GuestTexts == { " /STOP ", "Bob" }

\* The messages the polling delivers: (chat, text).
Messages == { m \in Chats \X Texts : m[1] = TELEGRAM_CHAT_ID \/ m[2] \in GuestTexts }

\* The catch block of the handleMessage that awaits Bot.exec: a handle that
\* was rejected is caught in the microtasks that follow the handler, before
\* the next event.
CatchRejected(w) ==
    LET caught == { e \in DOMAIN execs : /\ execs[e].state = "pending"
                                         /\ w.execs[e].state = "rejected"
                                         /\ w.execs[e].origin = "message" }
    IN  IF caught = {} THEN w
        ELSE SendMessage(w, w.execs[CHOOSE e \in caught : TRUE].chat, "execError")

\* The "message" event: Bot.handleMessage runs up to its first await.
Receive(chat, text) ==
    /\ InFlight(tasks) < MaxTasks
    /\ LET w == CatchRejected(HandleMessage(World, chat, text)) IN
       /\ Len(w.execs) <= MaxExecs
       /\ Install([w EXCEPT !.handled = <<chat, text>>])

\* handleMessage after `await this.userHasPrivateAccess`: it calls Bot.exec.
AccessChecked(i) ==
    /\ i \in 1..Len(tasks)
    /\ tasks[i].pc = "hmAccess"
    /\ Len(execs) < MaxExecs
    /\ IF UserHasPrivateAccess(tasks[i].chat)
       THEN Install(ExecCall(Without(i), tasks[i].command, tasks[i].chat, "message"))
       ELSE Install(SendMessage(Without(i), tasks[i].chat, "denied"))

\* Bot.exec after `await this.userHasPrivateAccess`: pushCommand and the title.
ExecAccessChecked(i) ==
    /\ i \in 1..Len(tasks)
    /\ tasks[i].pc = "execAccess"
    /\ IF UserHasPrivateAccess(tasks[i].chat)
       THEN Install(ExecPush(Without(i), tasks[i].exec))
       ELSE Install(SendMessage(Without(i), tasks[i].chat, "error"))

\* Bot.exec after the title was sent: subscribe, then sendNextPrompt.
ExecTitleSent(i) ==
    /\ i \in 1..Len(tasks)
    /\ tasks[i].pc = "execTitle"
    /\ Install(SendNextPrompt([Without(i) EXCEPT !.subs = Append(@, tasks[i].exec)],
                              tasks[i].chat))

\* stopCurrentCommand after "Command stopped" was sent; n is the length of the
\* stack in the state object read before popCommand.
StopMessageSent(i) ==
    /\ i \in 1..Len(tasks)
    /\ tasks[i].pc = "stopSent"
    /\ IF tasks[i].n > 0
       THEN Install(SendNextPrompt(Without(i), tasks[i].chat))
       ELSE Install(Without(i))

\* The items parser of special_order after `await bot.exec("order_item", ...)`:
\* n more items are to be asked for.
ItemsLoop(i) ==
    /\ i \in 1..Len(tasks)
    /\ tasks[i].pc = "itemsLoop"
    /\ execs[tasks[i].exec].state = "resolved"
    /\ IF tasks[i].n > 0
       THEN /\ Len(execs) < MaxExecs
            /\ InFlight(tasks) < MaxTasks
            /\ Install(AddTask(ExecCall(Without(i), "order_item", TELEGRAM_CHAT_ID, "parser"),
                               Task("itemsLoop", TELEGRAM_CHAT_ID, Len(execs) + 1,
                                    "order_item", tasks[i].n - 1)))
       ELSE Install(Without(i))

\* A Bot after its constructor and the registrations, before any message.
BotIdle ==
    /\ commandStack = <<>>
    /\ currentPromptIndex = NoIndex
    /\ responses = NoMap
    /\ isInPromptFlow = FALSE
    /\ listeners = <<>>
    /\ execs = <<>>
    /\ tasks = <<>>
    /\ shown = FALSE
    /\ sent = NoMessage
    /\ handled = NoInput

\* The texts the other chat sends to the Bot of the client.
LibGuestTexts == { "rate", " /STOP " }

LibMessages == { m \in Chats \X LibTexts : m[1] = TELEGRAM_CHAT_ID \/ m[2] \in LibGuestTexts }

\* The names the client passes to bot.exec from its own code: order is not
\* in the registry.
LibExecNames == { "ping", "order" }

\* The client calls bot.exec(name, TELEGRAM_CHAT_ID), as main does.
ClientExec(name) ==
    /\ InFlight(tasks) < MaxTasks
    /\ Len(execs) < MaxExecs
    /\ Install(Exec(World, Chars(name), TELEGRAM_CHAT_ID, "client"))

\* The Bot of the client: every command of LibCommands is public and none
\* starts another, so only the title and the stop continuations occur.
LibNext ==
    \/ \E m \in LibMessages : Receive(m[1], m[2])
    \/ \E name \in LibExecNames : ClientExec(name)
    \/ \E i \in 1..(MaxTasks + MaxExecs) : ExecTitleSent(i)
    \/ \E i \in 1..(MaxTasks + MaxExecs) : StopMessageSent(i)

\* The Bot that starts idle and is driven by messages only: no parser of a
\* command that a message can start starts another command.
SoloNext ==
    \/ \E m \in Messages : Receive(m[1], m[2])
    \/ \E i \in 1..(MaxTasks + MaxExecs) : ExecTitleSent(i)
    \/ \E i \in 1..(MaxTasks + MaxExecs) : StopMessageSent(i)

BotNext ==
    \/ \E m \in Messages : Receive(m[1], m[2])
    \/ \E i \in 1..(MaxTasks + MaxExecs) : AccessChecked(i)
    \/ \E i \in 1..(MaxTasks + MaxExecs) : ExecAccessChecked(i)
    \/ \E i \in 1..(MaxTasks + MaxExecs) : ExecTitleSent(i)
    \/ \E i \in 1..(MaxTasks + MaxExecs) : StopMessageSent(i)
    \/ \E i \in 1..(MaxTasks + MaxExecs) : ItemsLoop(i)

(***************************************************************************)
(* Part III.  CommandHandler (commandHandler.ts) with the PromptHandler    *)
(* that keeps activePrompts (prompt.ts).                                   *)
(***************************************************************************)
cooldownPeriod == 60000

authorizedUsers == {123456789, 987654321}

\* msg.from?.id of a message without sender
NoUser == 0

\* One tick of the clock is half a cooldown period.
Tick == cooldownPeriod \div 2

\* The registry: help is added by the constructor; order and admin stand for
\* the commands a client adds with addCommand, in this order.
CHCommands == <<"help", "order", "admin">>

IsPrivate(c) == c = "admin"

\* The category of a command: "General" is the one of help; a client names
\* the categories of its commands as it likes (z.string()).
Category(c) ==
    CASE c = "help" -> "General"
      [] c = "order" -> "2024"
      [] c = "admin" -> "General"

CHPrompts(c) ==
    CASE c = "help" -> <<>>
      [] c = "orders" -> <<>>
      [] c = "order" -> << [name |-> "item", type |-> "text", help |-> FALSE],
                           [name |-> "count", type |-> "number", help |-> FALSE] >>
      [] c = "admin" -> << [name |-> "reason", type |-> "text", help |-> TRUE] >>

CHTexts == { "/help", "/order", "/admin", "Bob", "2" }

\* The messages the polling delivers: (user id, chat, text), all in one chat:
\* the authorized user sends every text, another user invokes the private
\* command, and a post without sender invokes help.
CHMessages ==
    ({123456789} \X {"owner"} \X CHTexts)
    \cup {<<42, "owner", "/admin">>, <<NoUser, "owner", "/help">>}

\* new RegExp(`^/${command.name}`) tested on the text
IsPrefix(p, t) == Len(p) <= Len(t) /\ SubSeq(t, 1, Len(p)) = p

Matches(text, c) == IsPrefix(<<"/">> \o Chars(c), Chars(text))

\* parseFloat, on texts without fraction and exponent
ParseFloat(chars) == ParseInt(chars)

Undefined == [kind |-> "undefined", s |-> "", n |-> 0]

CHWorld ==
    [now |-> now, stamps |-> lastCommandTimestamp, active |-> activePrompts,
     subs |-> promptListeners, runs |-> runs, out |-> <<>>]

Say(h, kind) == [h EXCEPT !.out = Append(@, kind)]

\* Variant: every user with an id is authorized.
IsAnyUserAuthorized(userId) == userId # NoUser

IsUserAuthorized(userId) == userId # NoUser /\ userId \in authorizedUsers

\* Variant: the cooldown also covers the instant at which the period ends.
IsOnCooldownInclusive(h, userId, commandName) ==
    IF userId \notin DOMAIN h.stamps THEN FALSE
    ELSE IF h.stamps[userId].commandName # commandName THEN FALSE
    ELSE h.now - h.stamps[userId].timestamp <= cooldownPeriod

IsOnCooldown(h, userId, commandName) ==
    IF userId \notin DOMAIN h.stamps THEN FALSE
    ELSE IF h.stamps[userId].commandName # commandName THEN FALSE
    ELSE h.now - h.stamps[userId].timestamp < cooldownPeriod

\* Variant: ask does not look at activePrompts.
AskUnguarded(h, r) ==
    [Say(h, "prompt") EXCEPT !.active = Put(@, h.runs[r].chat, r),
                             !.runs[r].state = "sending"]

\* PromptHandler.ask up to its first await, for the prompt run r is at.
Ask(h, r) ==
    LET chat == h.runs[r].chat IN
    IF chat \in DOMAIN h.active
    THEN [Say(h, "busy") EXCEPT !.runs[r].state = "busy"]
    ELSE [Say(h, "prompt") EXCEPT !.active = Put(@, chat, r),
                                  !.runs[r].state = "sending"]

\* A property key that is an array index (a canonical non-negative integer).
IsArrayIndex(s) ==
    /\ s # <<>>
    /\ \A i \in 1..Len(s) : IsDigit(s[i])
    /\ Len(s) > 1 => s[1] # "0"

RECURSIVE Ascending(_)
\* The array-index keys in ascending numeric order.
Ascending(keys) ==
    IF keys = {} THEN <<>>
    ELSE LET least == CHOOSE k \in keys :
                 \A other \in keys : ParseInt(Chars(k)).n <= ParseInt(Chars(other)).n
         IN  <<least>> \o Ascending(keys \ {least})

RECURSIVE Distinct(_, _)
\* The keys of a sequence of property writes, in the order of creation.
Distinct(written, seen) ==
    IF written = <<>> THEN <<>>
    ELSE IF Head(written) \in seen THEN Distinct(Tail(written), seen)
    ELSE <<Head(written)>> \o Distinct(Tail(written), seen \cup {Head(written)})

\* Object.entries of an object whose keys were created in this order: the
\* array-index keys come first, in ascending order, then the other keys in
\* the order of creation.
ObjectKeys(written) ==
    LET created == Distinct(written, {})
        isIndex(k) == IsArrayIndex(Chars(k))
        notIndex(k) == ~IsArrayIndex(Chars(k))
    IN  Ascending({ created[i] : i \in { j \in DOMAIN created : isIndex(created[j]) } })
        \o SelectSeq(created, notIndex)

\* The commands of the registry the user may see, in the order of the Map.
Visible(userId) ==
    LET mayBeSeen(c) == ~IsPrivate(c) \/ IsUserAuthorized(userId)
    IN  SelectSeq(CHCommands, mayBeSeen)

\* The help handler's list: the visible commands reduced into an object keyed
\* by category, read with Object.entries.
CommandList(userId) ==
    LET visible == Visible(userId)
        keys == ObjectKeys([i \in DOMAIN visible |-> Category(visible[i])])
    IN  [i \in DOMAIN keys |->
            [category |-> keys[i],
             commands |-> SelectSeq(visible, LAMBDA c : Category(c) = keys[i])]]

\* The handler of the command; the one of help sends the list of the commands
\* the user may see.
Handler(h, r) ==
    LET done == [h EXCEPT !.runs[r].state = "done"]
        user == h.runs[r].user
        commandList == CommandList(user)
    IN  IF h.runs[r].command # "help" THEN done
        ELSE IF commandList # <<>>
             THEN Say([done EXCEPT !.runs[r].listed = commandList], "commandList")
             ELSE Say(done, "noCommands")

\* The loop of executeCommand over the prompts, from the prompt run r is at.
AskLoop(h, r) ==
    IF h.runs[r].at > Len(CHPrompts(h.runs[r].command))
    THEN Handler(h, r)
    ELSE Ask(h, r)

\* Variant: a rejected invocation is recorded too.
ExecuteCommandRestamping(h, c, userId, chat) ==
    IF userId = NoUser THEN Say(h, "undefinedUser")
    ELSE IF IsOnCooldown(h, userId, c)
         THEN Say([h EXCEPT !.stamps = Put(@, userId, [commandName |-> c, timestamp |-> h.now])],
                  "cooldown")
    ELSE LET r == Len(h.runs) + 1
             accepted == [h EXCEPT
                 !.stamps = Put(@, userId, [commandName |-> c, timestamp |-> h.now]),
                 !.runs = Append(@, [command |-> c, user |-> userId, chat |-> chat,
                                     time |-> h.now, at |-> 1, answers |-> <<>>,
                                     listed |-> <<>>, state |-> "started"])]
         IN  AskLoop(accepted, r)

ExecuteCommand(h, c, userId, chat) ==
    IF userId = NoUser THEN Say(h, "undefinedUser")
    ELSE IF IsOnCooldown(h, userId, c) THEN Say(h, "cooldown")
    ELSE LET r == Len(h.runs) + 1
             accepted == [h EXCEPT
                 !.stamps = Put(@, userId, [commandName |-> c, timestamp |-> h.now]),
                 !.runs = Append(@, [command |-> c, user |-> userId, chat |-> chat,
                                     time |-> h.now, at |-> 1, answers |-> <<>>,
                                     listed |-> <<>>, state |-> "started"])]
         IN  AskLoop(accepted, r)

\* The callback addCommand gives to bot.onText.
OnText(h, c, userId, chat) ==
    IF ~IsPrivate(c) \/ IsUserAuthorized(userId)
    THEN ExecuteCommand(h, c, userId, chat)
    ELSE Say(h, "unauthorized")

ParseAnswer(type, text) ==
    IF type = "number"
    THEN LET parsedNumber == ParseFloat(Chars(text))
         IN  IF parsedNumber.nan THEN [kind |-> "throw", s |-> text, n |-> 0]
             ELSE NumberVal(parsedNumber.n)
    ELSE StringVal(text)

\* The messageHandler of the prompt run r is at, up to its first await.
MessageHandler(h, r, chat, text) ==
    LET run == h.runs[r]
        prompt == CHPrompts(run.command)[run.at]
        answer == ParseAnswer(prompt.type, text)
        pending == run.state \in {"waiting", "rejecting"}
    IN  IF run.chat # chat THEN h
        ELSE IF IsPrefix(<<"/">>, Chars(text)) THEN Say(h, "notSupported")
        ELSE IF ToLowerCase(Chars(text)) = Chars("help") /\ prompt.help
             THEN Say(h, "promptHelp")
        ELSE IF answer.kind = "throw"
             THEN [Say(h, "error") EXCEPT !.runs[r].state =
                        IF run.state = "waiting" THEN "rejecting" ELSE @]
        ELSE LET cleared == [h EXCEPT !.subs = Remove(@, r),
                                      !.active = [x \in DOMAIN @ \ {chat} |-> @[x]]]
             IN  IF pending
                 THEN [cleared EXCEPT !.runs[r].answers = Append(@, answer),
                                      !.runs[r].at = @ + 1,
                                      !.runs[r].state = "resolved"]
                 ELSE cleared

RECURSIVE EmitMessage(_,_,_,_)
\* bot.emit("message"): the listeners attached when the message arrived.
EmitMessage(h, pending, chat, text) ==
    IF pending = <<>> THEN h
    ELSE EmitMessage(MessageHandler(h, Head(pending), chat, text), Tail(pending), chat, text)

RECURSIVE TextCallbacks(_,_,_,_,_)
\* The onText callbacks whose expression matches, in the order of onText.
TextCallbacks(h, i, userId, chat, text) ==
    IF i > Len(CHCommands) THEN h
    ELSE IF Matches(text, CHCommands[i])
         THEN TextCallbacks(OnText(h, CHCommands[i], userId, chat), i + 1, userId, chat, text)
         ELSE TextCallbacks(h, i + 1, userId, chat, text)

\* A second registry: the name of one command a client adds (order) is the
\* beginning of the name of another (orders, a command without prompts).
RegCommands == <<"help", "order", "orders">>

RECURSIVE RegTextCallbacks(_,_,_,_,_)
\* The onText callbacks of the second registry whose expression matches.
RegTextCallbacks(h, i, userId, chat, text) ==
    IF i > Len(RegCommands) THEN h
    ELSE IF Matches(text, RegCommands[i])
         THEN RegTextCallbacks(OnText(h, RegCommands[i], userId, chat), i + 1, userId, chat, text)
         ELSE RegTextCallbacks(h, i + 1, userId, chat, text)

RECURSIVE Resume(_,_)
\* executeCommand goes on after the await of a resolved ask.
Resume(h, r) ==
    IF r > Len(h.runs) THEN h
    ELSE IF h.runs[r].state = "resolved" THEN Resume(AskLoop(h, r), r + 1)
    ELSE Resume(h, r + 1)

\* processUpdate: the "message" listeners, then the onText callbacks, then the
\* continuations of what was resolved.
ProcessUpdate(h, userId, chat, text) ==
    Resume(TextCallbacks(EmitMessage(h, h.subs, chat, text), 1, userId, chat, text), 1)

CHInstall(h, input) ==
    /\ now' = h.now
    /\ lastCommandTimestamp' = h.stamps
    /\ activePrompts' = h.active
    /\ promptListeners' = h.subs
    /\ runs' = h.runs
    /\ chSent' = h.out
    /\ received' = input
    /\ UNCHANGED <<phVars, storeVars, onceVars>>

\* The CommandHandler after its constructor.
CHInit ==
    /\ now = 0
    /\ lastCommandTimestamp = NoMap
    /\ activePrompts = NoMap
    /\ promptListeners = <<>>
    /\ runs = <<>>
    /\ chSent = <<>>
    /\ received = NoInput

\* A message (userId, chat, text) arrives.
CHReceive(userId, chat, text) ==
    LET h == ProcessUpdate(CHWorld, userId, chat, text) IN
    /\ Len(h.runs) <= MaxRuns
    /\ CHInstall(h, <<userId, chat, text>>)
    /\ UNCHANGED botVars

\* Time passes.
ClockTick ==
    /\ now < MaxTime * Tick
    /\ CHInstall([CHWorld EXCEPT !.now = now + Tick], NoInput)
    /\ UNCHANGED botVars

\* ask after the prompt message was sent: the listener is attached.
PromptSent(r) ==
    /\ r \in 1..Len(runs)
    /\ runs[r].state = "sending"
    /\ CHInstall([CHWorld EXCEPT !.subs = Append(@, r), !.runs[r].state = "waiting"],
                 NoInput)
    /\ UNCHANGED botVars

\* ask after "Please complete the current prompt" was sent: it returns
\* undefined and executeCommand goes on.
BusySent(r) ==
    /\ r \in 1..Len(runs)
    /\ runs[r].state = "busy"
    /\ CHInstall(AskLoop([CHWorld EXCEPT !.runs[r].answers = Append(@, Undefined),
                                         !.runs[r].at = @ + 1], r),
                 NoInput)
    /\ UNCHANGED botVars

\* messageHandler after the error message was sent: reject(error).
ErrorSent(r) ==
    /\ r \in 1..Len(runs)
    /\ runs[r].state = "rejecting"
    /\ CHInstall([CHWorld EXCEPT !.runs[r].state = "failed"], NoInput)
    /\ UNCHANGED botVars

RegTexts == { "/order", "/orders", "Bob", "2" }

RegMessages == {123456789} \X {"owner"} \X RegTexts

\* A message arrives at the CommandHandler of the second registry.
RegReceive(userId, chat, text) ==
    LET h == Resume(RegTextCallbacks(EmitMessage(CHWorld, promptListeners, chat, text),
                                     1, userId, chat, text), 1)
    IN  /\ Len(h.runs) <= MaxRuns
        /\ CHInstall(h, <<userId, chat, text>>)
        /\ UNCHANGED botVars

RegNext ==
    \/ \E m \in RegMessages : RegReceive(m[1], m[2], m[3])
    \/ ClockTick
    \/ \E r \in 1..MaxRuns : PromptSent(r)
    \/ \E r \in 1..MaxRuns : BusySent(r)
    \/ \E r \in 1..MaxRuns : ErrorSent(r)

CHNext ==
    \/ \E m \in CHMessages : CHReceive(m[1], m[2], m[3])
    \/ ClockTick
    \/ \E r \in 1..MaxRuns : PromptSent(r)
    \/ \E r \in 1..MaxRuns : BusySent(r)
    \/ \E r \in 1..MaxRuns : ErrorSent(r)

(***************************************************************************)
(* Part IV.  Command (command.ts) behind the CommandHandler that calls     *)
(* command.execute from bot.onText, with the PromptHandler that catches    *)
(* the errors of parseAnswer ("catching") or the one written for           *)
(* validate and transform ("validating"), both of prompt.ts.               *)
(***************************************************************************)
\* The registry: help is added by the constructor, pick stands for a command
\* a client adds with addCommand.
CmdCommands == <<"help", "pick">>

\* The prompts of a command config; no prompt of the Prompt type of types.ts
\* has validate or transform.
CmdPrompts(c) ==
    CASE c = "help" -> <<>>
      [] c = "pick" -> << [name |-> "toppings", type |-> "checkbox", help |-> FALSE],
                          [name |-> "count", type |-> "number", help |-> FALSE],
                          [name |-> "ok", type |-> "confirm", help |-> TRUE] >>

PHTexts == { "/pick", "Tea", "Done", "2", "Yes" }

\* The messages the polling delivers: (chat, text).
PHMessages == ({"owner"} \X PHTexts) \cup {<<"guest", "Tea">>}

\* text.toLowerCase() and parseFloat(text) of every text, computed once.
PHLowered == [t \in PHTexts |-> ToLowerCase(Chars(t))]

PHParsed == [t \in PHTexts |-> ParseFloat(Chars(t))]

DoneToken == <<"d","o","n","e">>

HelpWord == <<"h","e","l","p">>

BoolVal(b) == [kind |-> "boolean", b |-> b]

\* A JavaScript array of message texts.
ListVal(items) == [kind |-> "array", items |-> items]

Thrown(text) == [kind |-> "throw", s |-> text, n |-> 0]

PHWorld ==
    [handler |-> promptHandler, runs |-> executions, subs |-> messageListeners, out |-> <<>>]

\* parseAnswer of either PromptHandler; only the catching one throws.
ParseAnswerOf(handler, type, text) ==
    LET lowered == PHLowered[text]
        parsedNumber == PHParsed[text]
    IN  CASE type = "number" ->
                IF ~parsedNumber.nan THEN NumberVal(parsedNumber.n)
                ELSE IF handler = "catching" THEN Thrown(text) ELSE NaNVal
          [] type = "confirm" ->
                IF handler = "catching" /\ lowered # <<"y","e","s">> /\ lowered # <<"n","o">>
                THEN Thrown(text)
                ELSE BoolVal(lowered = <<"y","e","s">>)
          [] type = "checkbox" -> ListVal(<<text>>)
          [] type = "list" -> IF handler = "catching" THEN ListVal(<<text>>) ELSE StringVal(text)
          [] OTHER -> StringVal(text)

\* currentAnswers[this.prompt.name]
CurrentAnswer(run, name) == IF name \in DOMAIN run.answers THEN run.answers[name] ELSE Undefined

\* ((currentAnswers[name] as string[]) || []).concat(answer)
Concat(current, answer) ==
    ListVal((IF current.kind = "array" THEN current.items ELSE <<>>) \o answer.items)

\* resolve(value) of the promise of ask; a settled promise stays as it is.
Resolve(p, r, value) ==
    IF p.runs[r].state \in {"waiting", "rejecting", "completing"}
    THEN [p EXCEPT !.runs[r].state = "resolved", !.runs[r].value = value]
    ELSE p

\* The messageHandler of the catching PromptHandler for the prompt execution
\* r is at, up to its first await.
CatchingHandler(p, r, chat, text) ==
    LET run == p.runs[r]
        prompt == CmdPrompts(run.command)[run.at]
        userInput == PHLowered[text]
        answer == ParseAnswerOf("catching", prompt.type, text)
    IN  IF run.chat # chat THEN p
        ELSE IF userInput = HelpWord /\ prompt.help THEN Say(p, "promptHelp")
        ELSE IF prompt.type = "checkbox" /\ userInput = DoneToken
             THEN [Say(p, "selectionComplete") EXCEPT
                      !.subs = Remove(@, r),
                      !.runs[r].state = IF @ = "waiting" THEN "completing" ELSE @]
        ELSE IF answer.kind = "throw"
             THEN [Say(p, "error") EXCEPT
                      !.runs[r].state = IF @ = "waiting" THEN "rejecting" ELSE @]
        ELSE IF prompt.type = "checkbox"
             THEN [Say(p, "added") EXCEPT
                      !.runs[r].answers = Put(@, prompt.name,
                                              Concat(CurrentAnswer(run, prompt.name), answer)),
                      !.runs[r].picked = Append(@, text)]
        ELSE IF prompt.type = "list"
             THEN Resolve([Say(p, "selected") EXCEPT
                              !.subs = Remove(@, r),
                              !.runs[r].answers = Put(@, prompt.name, answer)],
                          r, answer)
        ELSE Resolve([p EXCEPT !.subs = Remove(@, r)], r, answer)

\* The messageHandler of the validating PromptHandler, up to its first await.
ValidatingHandler(p, r, chat, text) ==
    LET run == p.runs[r]
        prompt == CmdPrompts(run.command)[run.at]
        userInput == PHLowered[text]
        answer == ParseAnswerOf("validating", prompt.type, text)
    IN  IF run.chat # chat THEN p
        ELSE IF userInput = HelpWord /\ prompt.help THEN Say(p, "promptHelp")
        ELSE IF prompt.type = "checkbox"
             THEN [Say(p, "added") EXCEPT
                      !.runs[r].answers = Put(@, prompt.name,
                                              Concat(CurrentAnswer(run, prompt.name), answer)),
                      !.runs[r].picked = IF userInput = DoneToken THEN @ ELSE Append(@, text),
                      !.runs[r].state = IF userInput = DoneToken /\ @ = "waiting"
                                        THEN "completing" ELSE @]
        ELSE Resolve([p EXCEPT !.subs = Remove(@, r)], r, answer)

MessageHandlerOf(p, r, chat, text) ==
    IF p.handler = "catching" THEN CatchingHandler(p, r, chat, text)
    ELSE ValidatingHandler(p, r, chat, text)

\* PromptHandler.ask up to the await of the prompt message, or sendSummary
\* when the loop over the prompts has ended.
AskNext(p, r) ==
    IF p.runs[r].at > Len(CmdPrompts(p.runs[r].command))
    THEN [Say(p, "summary") EXCEPT !.runs[r].state = "done"]
    ELSE [Say(p, "prompt") EXCEPT !.runs[r].state = "sending"]

StoreAnswerUnderFirst(p, r) ==
    LET run == p.runs[r]
        name == CmdPrompts(run.command)[1].name
    IN  AskNext([p EXCEPT !.runs[r].answers = Put(@, name, run.value),
                          !.runs[r].value = Undefined,
                          !.runs[r].at = @ + 1], r)

\* Command.execute after the await of ask: answers[prompt.prompt.name] = answer.
StoreAnswer(p, r) ==
    LET run == p.runs[r]
        name == CmdPrompts(run.command)[run.at].name
    IN  AskNext([p EXCEPT !.runs[r].answers = Put(@, name, run.value),
                          !.runs[r].value = Undefined,
                          !.runs[r].at = @ + 1], r)

\* Command.execute up to its first await.
Execute(p, c, chat) ==
    LET r == Len(p.runs) + 1
    IN  AskNext([p EXCEPT !.runs = Append(@, [command |-> c, chat |-> chat, at |-> 1,
                                              answers |-> NoMap, picked |-> <<>>,
                                              value |-> Undefined, state |-> "started"])], r)

RECURSIVE EmitToPrompts(_,_,_,_)
\* bot.emit("message") for the listeners attached when the message arrived.
EmitToPrompts(p, pending, chat, text) ==
    IF pending = <<>> THEN p
    ELSE EmitToPrompts(MessageHandlerOf(p, Head(pending), chat, text), Tail(pending), chat, text)

RECURSIVE CmdTextCallbacks(_,_,_,_)
\* The onText callbacks of addCommand whose expression matches.
CmdTextCallbacks(p, i, chat, text) ==
    IF i > Len(CmdCommands) THEN p
    ELSE IF Matches(text, CmdCommands[i])
         THEN CmdTextCallbacks(Execute(p, CmdCommands[i], chat), i + 1, chat, text)
         ELSE CmdTextCallbacks(p, i + 1, chat, text)

RECURSIVE Continue(_,_)
\* Command.execute goes on after the await of every resolved ask.
Continue(p, r) ==
    IF r > Len(p.runs) THEN p
    ELSE IF p.runs[r].state = "resolved" THEN Continue(StoreAnswer(p, r), r + 1)
    ELSE Continue(p, r + 1)

\* processUpdate: the listener of setupHelpCommand, the listeners of the
\* pending prompts, the onText callbacks, then the continuations.
CmdProcessUpdate(p, chat, text) ==
    LET listed == IF text = "/help" THEN Say(p, "commandList") ELSE p
    IN  Continue(CmdTextCallbacks(EmitToPrompts(listed, p.subs, chat, text), 1, chat, text), 1)

PHInstall(p, input) ==
    /\ promptHandler' = p.handler
    /\ executions' = p.runs
    /\ messageListeners' = p.subs
    /\ phSent' = p.out
    /\ phReceived' = input
    /\ UNCHANGED <<botVars, chVars, storeVars, onceVars>>

\* The CommandHandler after its constructor, built with this PromptHandler
\* class.
PHInit(handler) ==
    /\ promptHandler = handler
    /\ executions = <<>>
    /\ messageListeners = <<>>
    /\ phSent = <<>>
    /\ phReceived = NoInput

\* A message (chat, text) arrives.
PHReceive(chat, text) ==
    LET p == CmdProcessUpdate(PHWorld, chat, text) IN
    /\ Len(p.runs) <= MaxExecutions
    /\ \A r \in 1..Len(p.runs) :
          /\ Len(p.runs[r].picked) <= MaxPicks
          /\ \A k \in DOMAIN p.runs[r].answers :
                p.runs[r].answers[k].kind = "array"
                => Len(p.runs[r].answers[k].items) <= MaxPicks + 1
    /\ PHInstall(p, <<chat, text>>)

\* ask after the prompt message was sent: the listener is attached.
PHPromptSent(r) ==
    /\ r \in 1..Len(executions)
    /\ executions[r].state = "sending"
    /\ PHInstall([PHWorld EXCEPT !.subs = Append(@, r), !.runs[r].state = "waiting"], NoInput)

\* messageHandler after the message that answers "done" was sent: the
\* listener is removed (the catching handler did it before) and ask resolves
\* with currentAnswers[this.prompt.name].
PHDoneSent(r) ==
    /\ r \in 1..Len(executions)
    /\ executions[r].state = "completing"
    /\ LET name == CmdPrompts(executions[r].command)[executions[r].at].name
           removed == [PHWorld EXCEPT !.subs = Remove(@, r)]
       IN  PHInstall(Continue(Resolve(removed, r, CurrentAnswer(executions[r], name)), 1),
                     NoInput)

\* messageHandler of the catching handler after the error message was sent:
\* reject(error), which ends Command.execute.
PHErrorSent(r) ==
    /\ r \in 1..Len(executions)
    /\ executions[r].state = "rejecting"
    /\ PHInstall([PHWorld EXCEPT !.runs[r].state = "failed"], NoInput)

PHNext ==
    \/ \E m \in PHMessages : PHReceive(m[1], m[2])
    \/ \E r \in 1..MaxExecutions : PHPromptSent(r)
    \/ \E r \in 1..MaxExecutions : PHDoneSent(r)
    \/ \E r \in 1..MaxExecutions : PHErrorSent(r)

(***************************************************************************)
(* Part IV-b.  The echo-bot store of store.ts.                             *)
(***************************************************************************)
StoreNames == { "Ann", "Bob" }

StoreTexts == { "hi", "yo" }

\* zustand's set merges the fields it is given into the store.
gotStart(s) == [s EXCEPT !.state = "waitingName"]

gotName(s, name) == [s EXCEPT !.state = "echoing", !.name = name]

gotText(s, text) == [s EXCEPT !.text = text]

gotStop(s) == [s EXCEPT !.state = "confirming"]

confirmed(s) == [s EXCEPT !.state = "final"]

cancelledClearing(s) == [s EXCEPT !.state = "echoing", !.text = ""]

cancelled(s) == [s EXCEPT !.state = "echoing"]

StoreInit ==
    /\ useBotStore = [state |-> "waitingStart", name |-> "", text |-> ""]
    /\ storeCalls = <<>>

\* One call of a function of the store; the history keeps the last two.
StoreCall(action, arg, after) ==
    /\ useBotStore' = after
    /\ storeCalls' = LET call == [action |-> action, arg |-> arg, before |-> useBotStore]
                     IN  IF storeCalls = <<>> THEN <<call>>
                         ELSE <<storeCalls[Len(storeCalls)], call>>
    /\ UNCHANGED <<botVars, chVars, phVars, onceVars>>

StoreNext ==
    \/ StoreCall("gotStart", "", gotStart(useBotStore))
    \/ \E name \in StoreNames : StoreCall("gotName", name, gotName(useBotStore, name))
    \/ \E text \in StoreTexts : StoreCall("gotText", text, gotText(useBotStore, text))
    \/ StoreCall("gotStop", "", gotStop(useBotStore))
    \/ StoreCall("confirmed", "", confirmed(useBotStore))
    \/ StoreCall("cancelled", "", cancelled(useBotStore))

(***************************************************************************)
(* Part IV-c.  PromptHandler.ask that listens with bot.once.               *)
(***************************************************************************)
MaxAsks == 4

OnceTexts == { "Bob", "1", "2" }

OnceMessages == Chats \X OnceTexts

\* parseAnswer of a number prompt: parseFloat of the text.
OnceParsed == [ t \in OnceTexts |-> ParseFloat(Chars(t)) ]

\* The prompt of the client: a number prompt that accepts a positive number
\* and doubles it.
Validate(answer) == ~answer.nan /\ answer.n > 0

Transform(answer) == [answer EXCEPT !.n = @ * 2]

OnceWorld == [asks |-> asks, listeners |-> onceListeners]

\* ask: the prompt is being sent; the listener is attached when that is done.
\* parent is the ask that awaits this one, 0 when the client does.
OnceAsk(o, chat, parent) ==
    [o EXCEPT !.asks = Append(@, [chat |-> chat, parent |-> parent,
                                  state |-> "sending", value |-> [nan |-> TRUE, n |-> 0]])]

RECURSIVE OnceResolve(_,_,_)
\* resolve(answer) of the promise of an ask after the transform; the ask
\* that awaits it takes the value as its answer and goes on the same way.
OnceResolve(o, a, answer) ==
    LET value == Transform(answer)
        resolved == [o EXCEPT !.asks[a].state = "resolved", !.asks[a].value = value]
    IN  IF o.asks[a].parent = 0 THEN resolved
        ELSE OnceResolve(resolved, o.asks[a].parent, value)

\* The listener of ask a.
OnceListener(o, a, chat, text) ==
    IF chat # o.asks[a].chat THEN o
    ELSE LET answer == OnceParsed[text] IN
         IF ~Validate(answer)
         THEN OnceAsk([o EXCEPT !.asks[a].state = "reasking"], chat, a)
         ELSE OnceResolve(o, a, answer)

RECURSIVE OnceEmit(_,_,_,_,_)
\* emit("message"): the listeners attached at that moment, in order.
OnceEmit(o, attached, i, chat, text) ==
    IF i > Len(attached) THEN o
    ELSE OnceEmit(OnceListener(o, attached[i], chat, text), attached, i + 1, chat, text)

OnceInstall(o, input) ==
    /\ asks' = o.asks
    /\ onceListeners' = o.listeners
    /\ onceReceived' = input
    /\ UNCHANGED <<botVars, chVars, phVars, storeVars>>

OnceInit ==
    /\ asks = <<>>
    /\ onceListeners = <<>>
    /\ onceReceived = NoInput

\* The client asks its prompt in a chat.
OnceStart(chat) ==
    /\ Len(asks) < MaxAsks
    /\ OnceInstall(OnceAsk(OnceWorld, chat, 0), NoInput)

\* sendMessage of ask a is done: bot.once attaches the listener.
OnceSent(a) ==
    /\ a \in DOMAIN asks
    /\ asks[a].state = "sending"
    /\ OnceInstall([OnceWorld EXCEPT !.asks[a].state = "listening",
                                     !.listeners = Append(@, a)], NoInput)

\* A message arrives: every listener of once is removed and then called.
OnceReceive(chat, text) ==
    LET o == OnceEmit([OnceWorld EXCEPT !.listeners = <<>>], onceListeners, 1, chat, text)
    IN  /\ Len(o.asks) <= MaxAsks
        /\ OnceInstall(o, <<chat, text>>)

OnceNext ==
    \/ \E chat \in Chats : OnceStart(chat)
    \/ \E a \in 1..MaxAsks : OnceSent(a)
    \/ \E m \in OnceMessages : OnceReceive(m[1], m[2])

vars == <<botVars, chVars, phVars, storeVars, onceVars>>

Init == BotInit /\ CHInit /\ PHInit("catching") /\ StoreInit /\ OnceInit

\* Command is built with either PromptHandler class of prompt.ts.
InitCmd ==
    /\ BotInit /\ CHInit /\ StoreInit /\ OnceInit
    /\ \E handler \in {"catching", "validating"} : PHInit(handler)

Next == BotNext

NextCH == CHNext

\* The Bot of bot.ts with the commands of main.
Spec == Init /\ [][Next]_vars

\* The CommandHandler of commandHandler.ts.
SpecCH == Init /\ [][NextCH]_vars

NextCmd == PHNext

NextReg == RegNext

\* The CommandHandler with the second registry.
SpecReg == Init /\ [][NextReg]_vars

InitLib == BotIdle /\ CHInit /\ PHInit("catching") /\ StoreInit /\ OnceInit

NextLib == LibNext

\* The Bot class with the registry of a client.
SpecLib == InitLib /\ [][NextLib]_vars

NextStore == StoreNext

\* The echo-bot store on its own.
SpecStore == Init /\ [][NextStore]_vars

NextOnce == OnceNext

\* PromptHandler.ask with bot.once on its own.
SpecOnce == Init /\ [][NextOnce]_vars

NextSolo == SoloNext

\* The Bot on its own, idle at first, with the registry of main.
SpecSolo == InitLib /\ [][NextSolo]_vars

\* Command.execute of command.ts with either PromptHandler of prompt.ts.
SpecCmd == InitCmd /\ [][NextCmd]_vars


(***************************************************************************)
(* Part V.  Properties of the Bot.                                         *)
(***************************************************************************)
ActiveFrame == commandStack[Len(commandStack)]

\* The pending prompt of the active frame, when there is one.
HasPendingPrompt ==
    /\ commandStack # <<>>
    /\ currentPromptIndex # NoIndex
    /\ currentPromptIndex < Len(Prompts(ActiveFrame.command))

PendingPrompt == Prompts(ActiveFrame.command)[currentPromptIndex + 1]

\* A message that handleMessage hands to handlePromptResponse.
IsReply(text) == text # "" /\ Normalized[text] \notin {HelpToken, StopToken}

\* The step starts the handler of the message (chat, text).
Handles(chat, text) == handled' = <<chat, text>>

\* The message is handled as the reply to the pending prompt.
ReplyStep(chat, text) ==
    /\ Handles(chat, text)
    /\ isInPromptFlow
    /\ IsReply(text)
    /\ HasPendingPrompt

\* The message is handled as /stop of a flow.
StopStep(chat, text) ==
    /\ Handles(chat, text)
    /\ isInPromptFlow
    /\ text # ""
    /\ Normalized[text] = StopToken
    /\ commandStack # <<>>

ReplyValue(text) == ParserValue(PendingPrompt.parser, text)

ValidReply(text) == FieldAccepts(PendingPrompt.key, ReplyValue(text))

StartsCommand(parser) == parser \in {"execCustomerInfo", "execOrderItems"}

\* C1: when the customerInfo prompt of special_order has started customer_info,
\* the valid answer to the last prompt of customer_info makes special_order the
\* active frame again, with the cursor at the prompt after customerInfo and the
\* answers of customer_info held under the key customerInfo.
C1_NestedCommandReturnsToParent ==
    [][\A chat \in Chats, text \in Texts :
        ( /\ ReplyStep(chat, text)
          /\ Len(commandStack) = 2
          /\ commandStack[1].command = "special_order"
          /\ commandStack[2].command = "customer_info"
          /\ commandStack[2].pidx = 0
          /\ execs[commandStack[2].by].origin = "parser"
          /\ tasks = <<>>
          /\ listeners = <<commandStack[1].by, commandStack[2].by>>
          /\ currentPromptIndex = Len(Prompts("customer_info")) - 1
          /\ ValidReply(text)
          /\ SchemaAccepts("customer_info", Put(responses, PendingPrompt.key, ReplyValue(text))) )
        => ( /\ commandStack' = <<commandStack[1]>>
             /\ isInPromptFlow'
             /\ currentPromptIndex' = 1
             /\ "customerInfo" \in DOMAIN responses' )
      ]_vars

\* C2: /stop in a flow of depth D removes exactly the top frame; for D > 1 the
\* flow goes on with the cursor the parent had when the nested command was
\* started; for D = 1 the session is idle with an empty stack.
C2_StopPopsOneFrameAndResumesParent ==
    [][\A chat \in Chats, text \in Texts :
        ( StopStep(chat, text) /\ tasks = <<>> )
        => ( /\ commandStack' = SubSeq(commandStack, 1, Len(commandStack) - 1)
             /\ Len(commandStack) > 1 =>
                   /\ isInPromptFlow'
                   /\ currentPromptIndex' = ActiveFrame.pidx
             /\ Len(commandStack) = 1 =>
                   /\ ~isInPromptFlow'
                   /\ commandStack' = <<>> )
      ]_vars

\* C3: after /stop has popped a frame, no answer to a prompt of the stopped
\* command is left in the answer map, at every depth.
C3_StopDiscardsAnswersOfStoppedFrame ==
    [][\A chat \in Chats, text \in Texts :
        ( StopStep(chat, text) /\ tasks = <<>> )
        => \A k \in PromptKeys(ActiveFrame.command) : k \notin DOMAIN responses'
      ]_vars

\* The cursor and the answers with which the frame below the active one is
\* resumed: the ones popCommand leaves.
ResumedAfter(stack, idx, resp, flow) ==
    PopCommand([World EXCEPT !.stack = stack, !.idx = idx, !.resp = resp, !.flow = flow])

\* C4: a push onto a non-empty stack leaves the cursor and the answers of the
\* parent as they were, and the new frame has cursor 0 and no answers.
C4_NestedPushKeepsParentFrame ==
    [][( /\ commandStack # <<>>
         /\ tasks = <<>>
         /\ Len(commandStack') = Len(commandStack) + 1 )
        => ( /\ currentPromptIndex' = 0
             /\ responses' = NoMap
             /\ LET parent == ResumedAfter(commandStack', currentPromptIndex', responses', isInPromptFlow')
                IN  /\ parent.idx = currentPromptIndex
                    /\ parent.resp = responses )
      ]_vars

\* C5: a command without nested delegation that Bot.exec started in an idle
\* session and that got one valid reply per prompt, in order, resolves the
\* completion handle of that invocation with exactly the validated values.
C5_ExecResolvesWithValidatedAnswers ==
    [][\A chat \in Chats, text \in Texts :
        ( /\ ReplyStep(chat, text)
          /\ Len(commandStack) = 1
          /\ tasks = <<>>
          /\ \A i \in 1..Len(Prompts(ActiveFrame.command)) :
                ~StartsCommand(Prompts(ActiveFrame.command)[i].parser)
          /\ currentPromptIndex = Len(Prompts(ActiveFrame.command)) - 1
          /\ DOMAIN responses = PromptKeys(ActiveFrame.command) \ {PendingPrompt.key}
          /\ ValidReply(text) )
        => ( /\ execs'[ActiveFrame.by].state = "resolved"
             /\ execs'[ActiveFrame.by].result = Put(responses, PendingPrompt.key, ReplyValue(text)) )
      ]_vars

\* C6: for a pending prompt whose parser starts no command, a reply that fails
\* the parser or the validator of the key leaves commandStack,
\* currentPromptIndex and responses unchanged; a valid reply, also one that
\* follows a rejected reply, is stored under the key of the prompt and moves
\* the cursor by one: to the next prompt or, past the last prompt, to the
\* exhausted cursor (null), and then a handle resolved by the finalisation
\* holds the stored value.
C6_InvalidReplyKeepsStateValidReplyAdvances ==
    [][\A chat \in Chats, text \in Texts :
        ( ReplyStep(chat, text) /\ ~StartsCommand(PendingPrompt.parser) )
        => LET stored == Put(responses, PendingPrompt.key, ReplyValue(text)) IN
           IF ~ValidReply(text)
           THEN UNCHANGED <<commandStack, currentPromptIndex, responses>>
           ELSE IF currentPromptIndex + 1 < Len(Prompts(ActiveFrame.command))
                THEN /\ commandStack' = commandStack
                     /\ responses' = stored
                     /\ currentPromptIndex' = currentPromptIndex + 1
                ELSE /\ currentPromptIndex' = NoIndex
                     /\ \A e \in 1..Len(execs) :
                           execs[e].state # execs'[e].state
                           => execs'[e].result = SchemaOutput(ActiveFrame.command, stored)
      ]_vars

\* A valid reply was stored right after a rejected reply to the same prompt,
\* and the next prompt of the command is pending.
C6_Witness ==
    /\ sent.retry
    /\ sent.kind = "prompt"
    /\ HasPendingPrompt
    /\ sent.command = ActiveFrame.command
    /\ sent.index = currentPromptIndex
    /\ currentPromptIndex > 0
    /\ Prompts(ActiveFrame.command)[currentPromptIndex].key \in DOMAIN responses

\* C7: the handling of one message never interleaves with the handling of
\* another: a reply is only applied to a prompt that was sent, and a command
\* name received in an idle session is not handled while a command started by
\* an earlier message is still on its way to pushCommand.
C7_MessagesHandledOneAtATime ==
    [][\A chat \in Chats, text \in Texts :
        /\ ( ReplyStep(chat, text) /\ ValidReply(text) ) => shown
        /\ ( /\ Handles(chat, text)
             /\ ~isInPromptFlow
             /\ text # ""
             /\ Registered(Normalized[text]) )
           => ~\E i \in 1..Len(tasks) :
                 \/ tasks[i].pc = "hmAccess"
                 \/ tasks[i].pc = "execAccess" /\ execs[tasks[i].exec].origin = "message"
      ]_vars

\* C8: a message of a chat other than the one the active flow was started for
\* changes neither the stack nor the cursor nor the answers.
C8_ChatsAreIsolated ==
    [][\A chat \in Chats, text \in Texts :
        ( /\ Handles(chat, text)
          /\ commandStack # <<>>
          /\ execs[ActiveFrame.by].chat # chat )
        => UNCHANGED <<commandStack, currentPromptIndex, responses>>
      ]_vars

\* No handler of a message, and no invocation of Bot.exec, is suspended at an
\* await of the Bot (a parser that waits for the command it started is not).
Quiescent == InFlight(tasks) = 0

\* C15: whenever no message is being handled, isInPromptFlow is true exactly
\* when commandStack is not empty.
C15_InFlowIffStackNonEmpty ==
    Quiescent => (isInPromptFlow <=> commandStack # <<>>)

\* C16: whenever no message is being handled and the session is in a flow
\* (its command stack is not empty), currentPromptIndex is an index into the
\* prompts of the command on top of the stack and the text of that prompt is
\* the last prompt that was sent.
C16_InFlowHasPendingPromptSent ==
    ( Quiescent /\ commandStack # <<>> )
    => /\ HasPendingPrompt
       /\ shown

\* The reply completes the prompts of the active frame and a subscriber of
\* Bot.exec for the command of that frame is called with the answers.
FinalizingReply(chat, text) ==
    /\ ReplyStep(chat, text)
    /\ ~StartsCommand(PendingPrompt.parser)
    /\ ValidReply(text)
    /\ currentPromptIndex + 1 = Len(Prompts(ActiveFrame.command))
    /\ \E i \in 1..Len(listeners) : execs[listeners[i]].command = ActiveFrame.command

\* C18: when the answers collected for the finishing command fail its input
\* schema at finalization, the frame of that command is popped all the same.
C18_FailedFinalizationPopsFrame ==
    [][\A chat \in Chats, text \in Texts :
        ( /\ FinalizingReply(chat, text)
          /\ ~SchemaAccepts(ActiveFrame.command,
                            Put(responses, PendingPrompt.key, ReplyValue(text))) )
        => commandStack' = SubSeq(commandStack, 1, Len(commandStack) - 1)
      ]_vars

\* The message is handled as /help of a flow.
HelpStep(chat, text) ==
    /\ Handles(chat, text)
    /\ isInPromptFlow
    /\ text # ""
    /\ Normalized[text] = HelpToken

\* C20: /help in a flow leaves commandStack, currentPromptIndex and
\* responses unchanged, so that the next reply meets the same prompt; it sends
\* the help text of the pending prompt, or nothing when no prompt is pending.
C20_HelpSendsHelpTextOrNothing ==
    [][\A chat \in Chats, text \in Texts :
        HelpStep(chat, text)
        => /\ UNCHANGED <<commandStack, currentPromptIndex, responses>>
           /\ IF HasPendingPrompt
              THEN sent'.kind = "promptHelp"
              ELSE sent' = sent
      ]_vars

\* C20 as the code has it: /help in a flow leaves commandStack,
\* currentPromptIndex, responses, isInPromptFlow and the subscribers unchanged;
\* it sends the help text of the pending prompt when the prompt declares one,
\* "No help available for this prompt." when it declares none, and nothing
\* when the stack is empty or the cursor is null.
C20_HelpKeepsPendingPrompt ==
    [][\A chat \in Chats, text \in Texts :
        HelpStep(chat, text)
        => /\ UNCHANGED <<commandStack, currentPromptIndex, responses, isInPromptFlow,
                          listeners, execs, tasks>>
           /\ IF commandStack = <<>> \/ currentPromptIndex = NoIndex
              THEN sent' = sent
              ELSE /\ sent'.command = ActiveFrame.command
                   /\ sent'.index = currentPromptIndex
                   /\ sent'.kind = IF HasPendingPrompt /\ PendingPrompt.help
                                   THEN "promptHelp" ELSE "noPromptHelp"
      ]_vars

\* /help was just answered with the help text of a prompt that is still
\* pending, in a flow that holds an answer.
C20_Witness ==
    /\ handled # NoInput
    /\ Normalized[handled[2]] = HelpToken
    /\ sent.kind = "promptHelp"
    /\ isInPromptFlow
    /\ HasPendingPrompt
    /\ sent.command = ActiveFrame.command
    /\ sent.index = currentPromptIndex
    /\ responses # NoMap

\* The step resumes Bot.exec after the title message of task i was sent.
TitleSentStep(i) ==
    /\ tasks[i].pc = "execTitle"
    /\ handled' = NoInput
    /\ tasks' = RemoveAt(tasks, i)

\* C17: a command whose prompt list is empty is finalized as soon as Bot.exec
\* has started it, without any reply: when Bot.exec goes on after the title,
\* the action of the command is invoked, the handle of the exec is resolved
\* and the session is idle with an empty stack.
C17_EmptyCommandFinalizedAtOnce ==
    [][\A i \in DOMAIN tasks :
        ( /\ TitleSentStep(i)
          /\ Prompts(tasks[i].command) = <<>>
          /\ commandStack # <<>>
          /\ ActiveFrame.by = tasks[i].exec )
        => ( /\ execs'[tasks[i].exec].state = "resolved"
             /\ execs'[tasks[i].exec].ran
             /\ commandStack' = <<>>
             /\ ~isInPromptFlow' )
      ]_vars

\* C19: when the last answer completes a command that a chat message started
\* and the action of the command fails, the generic failure message is sent
\* to the chat that started the command, the frame is popped and the session
\* is idle.
C19_FailedActionReportedSessionIdle ==
    [][\A chat \in Chats, text \in LibTexts :
        ( /\ FinalizingReply(chat, text)
          /\ execs[ActiveFrame.by].origin = "message"
          /\ HasExecute(ActiveFrame.command)
          /\ ExecuteFails(ActiveFrame.command)
          /\ SchemaAccepts(ActiveFrame.command,
                           Put(responses, PendingPrompt.key, ReplyValue(text))) )
        => ( /\ sent'.kind = "execError"
             /\ \E e \in DOMAIN execs :
                   /\ execs[e].state = "pending"
                   /\ execs'[e].state = "rejected"
                   /\ execs[e].origin = "message"
                   /\ execs[e].chat \in {execs[ActiveFrame.by].chat, chat}
             /\ commandStack' = SubSeq(commandStack, 1, Len(commandStack) - 1)
             /\ commandStack' = <<>>
             /\ currentPromptIndex' = NoIndex
             /\ ~isInPromptFlow' )
      ]_vars

\* The step is a call of Bot.exec that failed with 'not found'.
NotFoundStep ==
    /\ Len(execs') = Len(execs) + 1
    /\ execs'[Len(execs')].state = "notFound"

\* C22: Bot.exec with a name that is not in the registry fails with the
\* 'not found' error and changes nothing: commandStack, currentPromptIndex,
\* responses and isInPromptFlow are as before, no message is sent, and no
\* subscriber, continuation or other invocation is touched.
C22_UnknownCommandChangesNothing ==
    [][NotFoundStep
       => /\ UNCHANGED <<commandStack, currentPromptIndex, responses, isInPromptFlow,
                         sent, shown, listeners, tasks>>
          /\ SubSeq(execs', 1, Len(execs)) = execs
      ]_vars

\* Bot.exec failed with 'not found' while a flow was waiting for the answer
\* to a prompt that had been sent.
C22_Witness ==
    /\ execs # <<>>
    /\ execs[Len(execs)].state = "notFound"
    /\ isInPromptFlow
    /\ commandStack # <<>>
    /\ shown
    /\ sent.kind = "prompt"

\* The step dispatches its message as a command attempt that is accepted:
\* handleMessage calls Bot.exec, or waits for userHasPrivateAccess to call it.
StartsByMessage ==
    \/ \E e \in (Len(execs) + 1)..Len(execs') : execs'[e].origin = "message"
    \/ \E i \in DOMAIN tasks' : tasks'[i].pc = "hmAccess"

\* C23: while the session is in a flow (its command stack is not empty) and
\* no other message is being handled, a message that is neither /help nor
\* /stop never starts a command, whatever its text.
C23_ReplyInFlowNeverStartsCommand ==
    [][\A chat \in Chats, text \in Texts :
        ( /\ Handles(chat, text)
          /\ IsReply(text)
          /\ commandStack # <<>>
          /\ Quiescent )
        => ~StartsByMessage
      ]_vars

\* C24: after a command at stack depth 1 was finalized (the reply completes
\* its prompts and the answers pass its input schema), the session is idle:
\* commandStack is empty, currentPromptIndex is null, responses is empty and
\* isInPromptFlow is false.
C24_FinalizedAtDepthOneIsIdle ==
    [][\A chat \in Chats, text \in Texts :
        ( /\ FinalizingReply(chat, text)
          /\ Len(commandStack) = 1
          /\ SchemaAccepts(ActiveFrame.command,
                           Put(responses, PendingPrompt.key, ReplyValue(text))) )
        => ( /\ commandStack' = <<>>
             /\ currentPromptIndex' = NoIndex
             /\ responses' = NoMap
             /\ ~isInPromptFlow' )
      ]_vars

\* The last answer has just finalized a command that a message started at
\* depth 1: its handle is resolved with the answers and the session is idle.
C24_Witness ==
    /\ handled # NoInput
    /\ IsReply(handled[2])
    /\ commandStack = <<>>
    /\ ~isInPromptFlow
    /\ \E e \in DOMAIN execs :
          /\ execs[e].state = "resolved"
          /\ execs[e].origin = "message"
          /\ execs[e].result # NoMap
          /\ e \notin {listeners[i] : i \in DOMAIN listeners}
    /\ sent.kind = "prompt"
    /\ sent.index = Len(Prompts(sent.command)) - 1

\* C28: when an invocation of a command through Bot.exec reaches
\* finalization, the handle of that invocation, and of no other, is settled,
\* with the answers the invocation collected, and the action of the command
\* is invoked for that invocation only; whatever happened before.
C28_FinalizationSettlesOwnInvocationOnly ==
    [][\A chat \in Chats, text \in Texts :
        ( /\ FinalizingReply(chat, text)
          /\ SchemaAccepts(ActiveFrame.command,
                           Put(responses, PendingPrompt.key, ReplyValue(text))) )
        => LET own == ActiveFrame.by
               answers == Put(responses, PendingPrompt.key, ReplyValue(text))
           IN  /\ execs'[own].state = "resolved"
               /\ execs'[own].result = SchemaOutput(ActiveFrame.command, answers)
               /\ execs'[own].ran = HasExecute(ActiveFrame.command)
               /\ \A e \in DOMAIN execs \ {own} : execs'[e] = execs[e]
      ]_vars

\* The flow of one command that a message started while the session was idle:
\* its frame is the only one and none of its parsers starts a command.
SingleCommandFlow ==
    /\ Len(commandStack) = 1
    /\ \A e \in DOMAIN execs : execs[e].origin = "message"
    /\ \A i \in 1..Len(Prompts(ActiveFrame.command)) :
          ~StartsCommand(Prompts(ActiveFrame.command)[i].parser)

Dispatches(userId, chat, text) == received' = <<userId, chat, text>>

\* The step sent a message of this kind.
Sends(kind) == \E i \in 1..Len(chSent') : chSent'[i] = kind

\* The step accepted an invocation of c by userId: executeCommand passed its
\* checks, which starts run Len(runs) + 1.
Accepts(userId, c) ==
    /\ Len(runs') = Len(runs) + 1
    /\ runs'[Len(runs')].command = c
    /\ runs'[Len(runs')].user = userId
    /\ runs'[Len(runs')].time = now
    /\ userId \in DOMAIN lastCommandTimestamp'
    /\ lastCommandTimestamp'[userId] = [commandName |-> c, timestamp |-> now]

\* The step rejected the invocation for cooldown: nothing is recorded, no
\* prompt is asked, no handler runs.
RejectsForCooldown ==
    /\ Sends("cooldown")
    /\ UNCHANGED <<lastCommandTimestamp, runs, activePrompts, promptListeners>>

\* The accepted invocations of c by userId that are less than a cooldown
\* period old.
RecentRuns(userId, c) ==
    { r \in 1..Len(runs) : /\ runs[r].user = userId
                           /\ runs[r].command = c
                           /\ now < runs[r].time + cooldownPeriod }

\* The last accepted invocation of userId, 0 when there is none.
LastRun(userId) ==
    LET own == { r \in 1..Len(runs) : runs[r].user = userId }
    IN  IF own = {} THEN 0 ELSE CHOOSE r \in own : \A q \in own : q <= r

\* An invocation of c that reaches executeCommand with a user id.
Invokes(userId, chat, text, c) ==
    /\ Dispatches(userId, chat, text)
    /\ Matches(text, c)
    /\ userId # NoUser
    /\ ~IsPrivate(c) \/ userId \in authorizedUsers

\* C9: an invocation of a command by a user less than cooldownPeriod after an
\* accepted invocation of the same command by the same user is rejected with
\* the cooldown message, asks no prompt and runs no handler, whatever the user
\* invoked in between; an invocation at or after that time is accepted.
C9_CooldownWhateverInBetween ==
    [][\A m \in CHMessages, i \in 1..Len(CHCommands) :
        Invokes(m[1], m[2], m[3], CHCommands[i])
        => IF RecentRuns(m[1], CHCommands[i]) # {}
           THEN RejectsForCooldown
           ELSE Accepts(m[1], CHCommands[i])
      ]_vars

\* C9 as the code has it: the invocation is rejected exactly when the last
\* accepted invocation of the user was of the same command and is less than
\* cooldownPeriod old; otherwise, also at exactly cooldownPeriod and also
\* after another command of the user was accepted in between, it is accepted.
C9_CooldownAfterLastAccepted ==
    [][\A m \in CHMessages, i \in 1..Len(CHCommands) :
        Invokes(m[1], m[2], m[3], CHCommands[i])
        => IF /\ LastRun(m[1]) # 0
              /\ LastRun(m[1]) \in RecentRuns(m[1], CHCommands[i])
           THEN RejectsForCooldown
           ELSE Accepts(m[1], CHCommands[i])
      ]_vars

\* An invocation was just rejected for cooldown, some time after the accepted
\* one.
C9_Witness ==
    /\ received # NoInput
    /\ chSent # <<>>
    /\ chSent[Len(chSent)] = "cooldown"
    /\ LastRun(received[1]) # 0
    /\ runs[LastRun(received[1])].time < now
    /\ Matches(received[3], runs[LastRun(received[1])].command)

\* C10: a private command invoked by a user who is not authorized is refused
\* and changes nothing; invoked by an authorized user who is not on cooldown
\* it goes on to its prompts: the first prompt is asked.
C10_PrivateCommandGate ==
    [][\A m \in CHMessages, i \in 1..Len(CHCommands) :
        ( /\ Dispatches(m[1], m[2], m[3])
          /\ Matches(m[3], CHCommands[i])
          /\ IsPrivate(CHCommands[i]) )
        => IF m[1] \notin authorizedUsers
           THEN /\ Sends("unauthorized")
                /\ UNCHANGED <<lastCommandTimestamp, runs, activePrompts, promptListeners>>
           ELSE ~IsOnCooldown(CHWorld, m[1], CHCommands[i])
                => /\ Accepts(m[1], CHCommands[i])
                   /\ Sends("prompt")
                   /\ m[2] \in DOMAIN activePrompts'
                   /\ activePrompts'[m[2]] = Len(runs')
      ]_vars

\* C10 as the code has it: the authorized invocation is accepted and ask is
\* called for the first prompt, which is sent when the chat has no active
\* prompt and is refused with "Please complete the current prompt" otherwise.
C10_PrivateCommandGateAsks ==
    [][\A m \in CHMessages, i \in 1..Len(CHCommands) :
        ( /\ Dispatches(m[1], m[2], m[3])
          /\ Matches(m[3], CHCommands[i])
          /\ IsPrivate(CHCommands[i]) )
        => IF m[1] \notin authorizedUsers
           THEN /\ Sends("unauthorized")
                /\ UNCHANGED <<lastCommandTimestamp, runs, activePrompts, promptListeners>>
           ELSE ~IsOnCooldown(CHWorld, m[1], CHCommands[i])
                => /\ Accepts(m[1], CHCommands[i])
                   /\ IF m[2] \in DOMAIN activePrompts
                      THEN /\ Sends("busy")
                           /\ ~Sends("prompt")
                           /\ activePrompts' = activePrompts
                      ELSE /\ Sends("prompt")
                           /\ activePrompts' = Put(activePrompts, m[2], Len(runs'))
      ]_vars

\* The private command was just refused to a user who is not authorized, while
\* an invocation of it by the authorized user is asking its prompt.
C10_Witness ==
    /\ received # NoInput
    /\ received[1] \notin authorizedUsers
    /\ received[3] = "/admin"
    /\ chSent # <<>>
    /\ chSent[Len(chSent)] = "unauthorized"
    /\ \E r \in 1..Len(runs) : /\ runs[r].command = "admin"
                               /\ runs[r].user \in authorizedUsers
                               /\ runs[r].state = "waiting"
                               /\ activePrompts[runs[r].chat] = r

\* The commands the user may see, grouped by category: the categories in the
\* order in which they are first seen, the commands of a category in the
\* order of registration.
GroupedFirstSeen(userId) ==
    LET visible == SelectSeq(CHCommands,
                             LAMBDA c : ~IsPrivate(c) \/ userId \in authorizedUsers)
        categories == Distinct([i \in DOMAIN visible |-> Category(visible[i])], {})
    IN  [i \in DOMAIN categories |->
            [category |-> categories[i],
             commands |-> SelectSeq(visible, LAMBDA c : Category(c) = categories[i])]]

\* C21: the list the help command has sent holds exactly the registered
\* commands the caller may see (a private command only for an authorized
\* user), grouped by category, in registration order inside a category, the
\* categories in the order in which they were first seen.
C21_HelpListsVisibleCommandsGrouped ==
    \A r \in DOMAIN runs :
        ( runs[r].command = "help" /\ runs[r].state = "done" )
        => runs[r].listed = GroupedFirstSeen(runs[r].user)

\* C26: an invocation rejected for cooldown leaves the cooldown records
\* unchanged: the record of the user still names the command and the time of
\* the user's last accepted invocation.
C26_CooldownRejectionKeepsRecord ==
    [][\A m \in CHMessages :
        ( Dispatches(m[1], m[2], m[3]) /\ Sends("cooldown") )
        => /\ lastCommandTimestamp' = lastCommandTimestamp
           /\ m[1] \in DOMAIN lastCommandTimestamp'
           /\ LastRun(m[1]) # 0
           /\ runs' = runs
           /\ lastCommandTimestamp'[m[1]] =
                  [commandName |-> runs[LastRun(m[1])].command,
                   timestamp |-> runs[LastRun(m[1])].time]
      ]_vars

\* An invocation was just rejected for cooldown at a time later than the one
\* the record of the user holds.
C26_Witness ==
    /\ received # NoInput
    /\ chSent = <<"cooldown">>
    /\ received[1] \in DOMAIN lastCommandTimestamp
    /\ lastCommandTimestamp[received[1]].timestamp < now
    /\ now - lastCommandTimestamp[received[1]].timestamp < cooldownPeriod
    /\ Matches(received[3], lastCommandTimestamp[received[1]].commandName)

\* C29: the handler of a command has run only with an answer map that
\* holds, for each prompt of the command, the value a reply of the user
\* resolved: no value is undefined.
C29_HandlerGetsEveryAnswer ==
    \A r \in DOMAIN runs :
        runs[r].state = "done"
        => /\ Len(runs[r].answers) = Len(CHPrompts(runs[r].command))
           /\ \A i \in DOMAIN runs[r].answers : runs[r].answers[i] # Undefined

\* C30: the entry of a chat in activePrompts belongs to a prompt that has not
\* ended: a prompt that resolved or failed with an error has no entry, so
\* that the next ask for the chat is not refused.
C30_EndedPromptHasNoActiveEntry ==
    \A chat \in DOMAIN activePrompts :
        runs[activePrompts[chat]].state \in {"sending", "waiting", "rejecting"}

\* The messageHandlers attached for the prompts of a chat.
ListenersOf(chat) ==
    { i \in DOMAIN promptListeners : runs[promptListeners[i]].chat = chat }

\* C31: at every moment at most one messageHandler of a prompt is attached
\* per chat.
C31_OneListenerPerChat ==
    \A chat \in Chats : Cardinality(ListenersOf(chat)) <= 1

\* A second command of the chat was refused its prompt while the
\* messageHandler of a prompt that failed with a parse error is still attached.
C31_Witness ==
    /\ Cardinality(ListenersOf("owner")) = 1
    /\ runs[promptListeners[1]].state = "failed"
    /\ \E r \in DOMAIN runs : /\ r # promptListeners[1]
                               /\ runs[r].chat = "owner"
                               /\ runs[r].state = "done"
                               /\ Undefined \in { runs[r].answers[i] : i \in DOMAIN runs[r].answers }

\* C34: one message starts at most one command execution, also when the
\* name of one registered command is the beginning of the name of another.
C34_OneMessageStartsOneExecution ==
    [][\A m \in RegMessages :
        Dispatches(m[1], m[2], m[3]) => Len(runs') <= Len(runs) + 1
      ]_vars

(***************************************************************************)
(* Part VII.  Properties of Command and PromptHandler.                     *)
(***************************************************************************)
\* The prompt execution r is at.
AskedPrompt(r) == CmdPrompts(executions[r].command)[executions[r].at]

\* The messageHandler of execution r is attached.
Listening(r) == \E i \in 1..Len(messageListeners) : messageListeners[i] = r

\* The step dispatches the message m to the listener of execution r.
Hears(r, m) ==
    /\ phReceived' = m
    /\ Listening(r)
    /\ executions[r].chat = m[1]

\* The step sent a message of this kind.
PHSends(kind) == \E i \in 1..Len(phSent') : phSent'[i] = kind

\* C11: with the catching PromptHandler, the reply "done" to a pending
\* checkbox prompt ends the prompt whatever was selected before, and the prompt
\* resolves with the sequence of the selections made, in order, which is the
\* empty sequence when there was none.
C11_DoneResolvesWithSelections ==
    [][\A r \in 1..Len(executions) :
        promptHandler = "catching" =>
        /\ \A m \in PHMessages :
              ( /\ Hears(r, m)
                /\ executions[r].state = "waiting"
                /\ AskedPrompt(r).type = "checkbox"
                /\ PHLowered[m[2]] = DoneToken )
              => /\ executions'[r].state = "completing"
                 /\ ~Listening(r)'
        /\ ( executions[r].state = "completing" /\ executions'[r].state # "completing" )
           => /\ executions'[r].at = executions[r].at + 1
              /\ executions'[r].answers[AskedPrompt(r).name] = ListVal(executions[r].picked)
      ]_vars

\* C12: with the catching PromptHandler, a reply to a number or confirm prompt
\* that parseAnswer refuses is answered with the error message and leaves the
\* prompt as it was, with its listener; a reply that parses, also after
\* refused ones, resolves the prompt with the parsed value.
C12_ParseFailureLeavesPromptAwaiting ==
    [][\A r \in 1..Len(executions), m \in PHMessages :
        ( /\ promptHandler = "catching"
          /\ Hears(r, m)
          /\ AskedPrompt(r).type \in {"number", "confirm"} )
        => LET answer == ParseAnswerOf("catching", AskedPrompt(r).type, m[2]) IN
           IF answer.kind = "throw"
           THEN /\ PHSends("error")
                /\ Listening(r)'
                /\ executions'[r].at = executions[r].at
                /\ executions'[r].answers = executions[r].answers
           ELSE /\ executions'[r].at = executions[r].at + 1
                /\ executions'[r].answers = Put(executions[r].answers, AskedPrompt(r).name, answer)
      ]_vars

\* C13: no reply makes the promise of Command.execute reject: no execution
\* ever ends with the error of a reply.
C13_NoReplyRejectsExecute ==
    \A r \in 1..Len(executions) : executions[r].state # "failed"

\* C14: with the validating PromptHandler, a reply to a pending confirm
\* prompt that is neither "yes" nor "no", in any case of the letters, leaves
\* the prompt pending: nothing is resolved and no boolean is stored.
C14_ConfirmResolvesOnlyOnYesNo ==
    [][\A r \in 1..Len(executions), m \in PHMessages :
        ( /\ promptHandler = "validating"
          /\ Hears(r, m)
          /\ executions[r].state = "waiting"
          /\ AskedPrompt(r).type = "confirm"
          /\ PHLowered[m[2]] \notin { <<"y","e","s">>, <<"n","o">>, HelpWord } )
        => /\ Listening(r)'
           /\ executions'[r].state = "waiting"
           /\ executions'[r].at = executions[r].at
           /\ executions'[r].answers = executions[r].answers
      ]_vars

\* C25: with the validating PromptHandler, the value a checkbox prompt
\* resolves with holds exactly the replies sent before the terminator, in
\* order: the reply "done" is not among the selections.
C25_TerminatorIsNotASelection ==
    [][\A r \in 1..Len(executions) :
        ( /\ promptHandler = "validating"
          /\ executions[r].state = "completing"
          /\ executions'[r].state # "completing"
          /\ AskedPrompt(r).type = "checkbox" )
        => /\ executions'[r].at = executions[r].at + 1
           /\ executions'[r].answers[AskedPrompt(r).name] = ListVal(executions[r].picked)
      ]_vars

\* The step hands the message m to the pending prompt of execution r, which
\* takes it: the execution is not as it was.
Consumes(r, m) ==
    /\ Hears(r, m)
    /\ executions'[r] # executions[r]

\* C27: with the catching PromptHandler, one message of a chat is taken by at
\* most one pending prompt, also when two commands were started in the chat,
\* and a message that starts a command is taken by no pending prompt.
C27_ReplyConsumedByOnePrompt ==
    [][\A m \in PHMessages :
        ( promptHandler = "catching" /\ phReceived' = m )
        => /\ \A r, q \in 1..Len(executions) :
                 ( Consumes(r, m) /\ Consumes(q, m) ) => r = q
           /\ Len(executions') > Len(executions)
              => \A r \in 1..Len(executions) : ~Consumes(r, m)
      ]_vars

\* C36: Command.execute asks the prompts in declared order: an execution
\* moves from a prompt to the next one only, and only when the prompt it was
\* at had been sent; the answers it holds are stored under the names of the
\* prompts before the one it is at (the prompt it is at may already keep
\* its choices under its own name), an answer once stored stays, and the
\* summary is sent only after the last prompt.
C36_PromptsInDeclaredOrder ==
    [][\A r \in DOMAIN executions' :
        LET new == executions'[r]
            prompts == CmdPrompts(new.command)
        IN  /\ new.at \in 1..(Len(prompts) + 1)
            /\ { prompts[i].name : i \in 1..(new.at - 1) } \subseteq DOMAIN new.answers
            /\ DOMAIN new.answers \subseteq
                  { prompts[i].name : i \in (1..new.at) \cap DOMAIN prompts }
            /\ new.state = "done" => new.at = Len(prompts) + 1
            /\ r \in DOMAIN executions
               => LET old == executions[r]
                  IN  /\ new.at \in {old.at, old.at + 1}
                      /\ \A i \in 1..(old.at - 1) :
                            new.answers[prompts[i].name] = old.answers[prompts[i].name]
                      /\ new.at = old.at + 1
                         => old.state \in {"waiting", "completing", "rejecting"}
      ]_vars

\* An execution of pick has sent its summary with an answer under the name of
\* each of its three prompts.
C36_Witness ==
    \E r \in DOMAIN executions :
        /\ executions[r].command = "pick"
        /\ executions[r].state = "done"
        /\ DOMAIN executions[r].answers = {"toppings", "count", "ok"}
        /\ executions[r].answers["count"].kind = "number"

(***************************************************************************)
(* Part VIII.  Properties of the echo-bot store and of ask with bot.once.  *)
(***************************************************************************)
\* The message of the step is delivered to the listeners of bot.once.
OnceHears(chat, text) == onceReceived' = <<chat, text>>

\* C32: a message from another chat does not affect a pending prompt: the
\* next reply from the chat of the prompt is still taken by the prompt, which
\* resolves or, when the validator refuses the reply, asks again.
C32_OtherChatLeavesPromptPending ==
    [][\A a \in DOMAIN asks : \A text \in OnceTexts :
        ( asks[a].state = "listening" /\ OnceHears(asks[a].chat, text) )
        => asks'[a].state \in {"resolved", "reasking"}
      ]_vars

\* C33: the value an ask resolves with comes from a reply that the validator
\* of the prompt accepted, and the transform was applied to it exactly once,
\* whatever the number of refused replies before it.
C33_ResolvedValueIsTransformedOnce ==
    [][\A a \in DOMAIN asks :
        ( asks[a].state # "resolved" /\ asks'[a].state = "resolved" )
        => \E text \in OnceTexts :
              /\ OnceHears(asks[a].chat, text)
              /\ Validate(OnceParsed[text])
              /\ asks'[a].value = Transform(OnceParsed[text])
      ]_vars

\* C37: gotStop followed by cancelled leaves the store in state echoing with
\* the name and the text it had before gotStop, and gotText changes the text
\* only.
C37_StopCancelledAndTextKeepTheRest ==
    /\ ( /\ Len(storeCalls) = 2
         /\ storeCalls[1].action = "gotStop"
         /\ storeCalls[2].action = "cancelled" )
       => useBotStore = [storeCalls[1].before EXCEPT !.state = "echoing"]
    /\ \A i \in DOMAIN storeCalls :
          storeCalls[i].action = "gotText"
          => LET after == IF i = Len(storeCalls) THEN useBotStore
                          ELSE storeCalls[i + 1].before
             IN  after = [storeCalls[i].before EXCEPT !.text = storeCalls[i].arg]

\* gotStop and then cancelled were called while the store was echoing a text
\* for a name.
C37_Witness ==
    /\ Len(storeCalls) = 2
    /\ storeCalls[1].action = "gotStop"
    /\ storeCalls[2].action = "cancelled"
    /\ storeCalls[1].before.state = "echoing"
    /\ storeCalls[1].before.name # ""
    /\ storeCalls[1].before.text # ""
    /\ useBotStore.state = "echoing"

====
